---- MODULE Spec2Model ----
(***************************************************************************)
(* Model of the transcript-to-field-update engine, src/parser.ts.          *)
(*                                                                         *)
(* A transcript is a sequence of one-character strings.  Positions and     *)
(* spans are 0-based and half-open, exactly as String.prototype indices in *)
(* the source: the character at index i of a text t is t[i + 1].           *)
(* Confidences are kept in hundredths (0.95 is 95).                        *)
(***************************************************************************)
EXTENDS Integers, Sequences, FiniteSets, TLC

VARIABLES
    schema,        \* parseTranscript's argument schema: Field[]
    text,          \* const text = transcript || ''
    now,           \* the wall clock chrono reads as its reference date
    chronoBad,     \* occurrences (by position in chrono's result) whose date conversion throws
    pc,            \* the pass of parseTranscript that runs next
    usedSpans,     \* const usedSpans: Span[]
    updates,       \* const updates: FieldUpdate[]
    debug,         \* const debug: any[]  (type, field and span of each event)
    finalUpdates,  \* the returned updates
    mergedOut,     \* the returned debug.usedSpans
    again,         \* the updates a further call with the same arguments returned
    errors,        \* what validateField said of each returned update
    form,          \* DynamicFormScreen: its state hooks, refs and pending promises
    sheet          \* RapSheet: its state hooks and pending promises

engineVars == <<schema, text, now, chronoBad, pc, usedSpans, updates, debug,
                finalUpdates, mergedOut, again, errors>>

vars == <<schema, text, now, chronoBad, pc, usedSpans, updates, debug,
          finalUpdates, mergedOut, again, errors, form, sheet>>

(***************************************************************************)
(* Characters and character classes of the regular expressions.            *)
(***************************************************************************)
Range(s) == {s[i] : i \in DOMAIN s}

LowerSeq ==
    <<"a","b","c","d","e","f","g","h","i","j","k","l","m",
      "n","o","p","q","r","s","t","u","v","w","x","y","z">>

UpperSeq ==
    <<"A","B","C","D","E","F","G","H","I","J","K","L","M",
      "N","O","P","Q","R","S","T","U","V","W","X","Y","Z">>

DigitSeq == <<"0","1","2","3","4","5","6","7","8","9">>

Digits == Range(DigitSeq)

Letters == Range(LowerSeq) \cup Range(UpperSeq)

\* \w
WordChars == Letters \cup Digits \cup {"_"}

\* \s
Spaces == {" ", "\n", "\t"}

\* [a-zA-Z0-9._%+-]
EmailLocal == Letters \cup Digits \cup {".", "_", "%", "+", "-"}

\* [a-zA-Z0-9.-]
EmailDomain == Letters \cup Digits \cup {".", "-"}

\* [\d\-\s().]
PhoneBody == Digits \cup Spaces \cup {"-", "(", ")", "."}

\* the characters excluded by [^,;\n\.]
Terminators == {",", ";", "\n", "."}

\* String.prototype.toLowerCase, one character
LowerChar(c) ==
    IF c \in Range(UpperSeq)
    THEN LowerSeq[CHOOSE i \in DOMAIN UpperSeq : UpperSeq[i] = c]
    ELSE c

ToLower(s) == [i \in DOMAIN s |-> LowerChar(s[i])]

\* the character at 0-based index i, "" outside the text
At(t, i) == IF i >= 0 /\ i < Len(t) THEN t[i + 1] ELSE ""

\* t.slice(a, b)
Slice(t, a, b) == IF b <= a THEN <<>> ELSE SubSeq(t, a + 1, b)

MaxOf(S) == CHOOSE x \in S : \A y \in S : y <= x

MinOf(S) == CHOOSE x \in S : \A y \in S : x <= y

\* Array.prototype.find, and the first alternative of a pattern that matches: the
\* first of the positions that satisfy the test, 0 when none does
FirstWith(hits) == IF hits = {} THEN 0 ELSE MinOf(hits)

\* the end of the longest run of characters of class C that starts at i
RECURSIVE RunEnd(_, _, _)
RunEnd(t, i, C) == IF At(t, i) \in C THEN RunEnd(t, i + 1, C) ELSE i

\* the end of the longest run of characters outside class C that starts at i
RECURSIVE RunEndNot(_, _, _)
RunEndNot(t, i, C) ==
    IF i < Len(t) /\ At(t, i) \notin C THEN RunEndNot(t, i + 1, C) ELSE i

\* \b at index i
IsBoundary(t, i) == (At(t, i - 1) \in WordChars) # (At(t, i) \in WordChars)

\* the literal p (escRe makes every phrase a literal) at index i, flag i
LitAtCI(t, i, p) ==
    /\ i + Len(p) <= Len(t)
    /\ \A k \in 1..Len(p) : LowerChar(t[i + k]) = LowerChar(p[k])

\* the literal p at index i, case-sensitive
LitAt(t, i, p) ==
    /\ i + Len(p) <= Len(t)
    /\ \A k \in 1..Len(p) : t[i + k] = p[k]

\* String.prototype.trim
RECURSIVE TrimEnd(_)
TrimEnd(s) ==
    IF s # <<>> /\ s[Len(s)] \in Spaces THEN TrimEnd(SubSeq(s, 1, Len(s) - 1)) ELSE s

\* no trimming at all
TrimNothing(s) == s

Trim(s) == TrimEnd(Slice(s, RunEnd(s, 0, Spaces), Len(s)))

(***************************************************************************)
(* The regular expressions of the passes.  Each XxxEndAt(t, i) is the end  *)
(* of the match the backtracking engine finds when it starts at index i,   *)
(* or -1 when there is none; exec returns the match of the least such i.   *)
(***************************************************************************)

\* /([a-zA-Z0-9._%+-]+@[a-zA-Z0-9.-]+\.[a-z]{2,})/gi at index i
EmailEndAt(t, i) ==
    LET j == RunEnd(t, i, EmailLocal) IN
    IF j = i \/ At(t, j) # "@" THEN -1
    ELSE LET k == RunEnd(t, j + 1, EmailDomain)
             dots == {p \in (j + 2)..(k - 1) :
                        /\ At(t, p) = "."
                        /\ RunEnd(t, p + 1, Letters) - (p + 1) >= 2}
         IN IF dots = {} THEN -1 ELSE RunEnd(t, MaxOf(dots) + 1, Letters)

\* /(\+?\d[\d\-\s().]{6,}\d)/g at index i
PhoneEndAt(t, i) ==
    LET s == IF At(t, i) = "+" THEN i + 1 ELSE i IN
    IF At(t, s) \notin Digits THEN -1
    ELSE LET k == RunEnd(t, s + 1, PhoneBody)
             last == {d \in (s + 7)..(k - 1) : At(t, d) \in Digits}
         IN IF last = {} THEN -1 ELSE MaxOf(last) + 1

\* the number of (?:,\d{3}) groups that can follow index p
RECURSIVE GroupCount(_, _)
GroupCount(t, p) ==
    IF /\ At(t, p) = ","
       /\ \A k \in 1..3 : At(t, p + k) \in Digits
    THEN 1 + GroupCount(t, p + 4)
    ELSE 0

\* <<n1, g, d>> before <<m1, h, e>> in the engine's order of attempts (greedy first)
TriedFirst(c, c2) ==
    \/ c[1] > c2[1]
    \/ c[1] = c2[1] /\ c[2] > c2[2]
    \/ c[1] = c2[1] /\ c[2] = c2[2] /\ c[3] >= c2[3]

\* /\b\d{1,3}(?:,\d{3})*(?:\.\d+)?\b/g at index i: n1 leading digits, g groups,
\* d decimals (0: no decimal part)
NumberEndAt(t, i) ==
    IF ~IsBoundary(t, i) \/ At(t, i) \notin Digits THEN -1
    ELSE LET lead == {n \in 1..3 : \A k \in 0..(n - 1) : At(t, i + k) \in Digits}
             DecLen(q) == IF At(t, q) = "." THEN RunEnd(t, q + 1, Digits) - (q + 1) ELSE 0
             EndOf(c) == i + c[1] + 4 * c[2] + (IF c[3] = 0 THEN 0 ELSE c[3] + 1)
             all == UNION { UNION { { <<n, g, d>> : d \in 0..DecLen(i + n + 4 * g) } :
                                    g \in 0..GroupCount(t, i + n) } : n \in lead }
             ok == {c \in all : IsBoundary(t, EndOf(c))}
         IN IF ok = {} THEN -1
            ELSE EndOf(CHOOSE c \in ok : \A c2 \in ok : TriedFirst(c, c2))

\* while ((m = emailRe.exec(text))): every match from lastIndex on
RECURSIVE EmailMatches(_, _)
EmailMatches(t, from) ==
    LET starts == {i \in from..(Len(t) - 1) : EmailEndAt(t, i) >= 0} IN
    IF starts = {} THEN <<>>
    ELSE LET i == MinOf(starts)
             e == EmailEndAt(t, i)
         IN <<[start |-> i, end |-> e]>> \o EmailMatches(t, e)

\* while ((m = phoneRe.exec(text)))
RECURSIVE PhoneMatches(_, _)
PhoneMatches(t, from) ==
    LET starts == {i \in from..(Len(t) - 1) : PhoneEndAt(t, i) >= 0} IN
    IF starts = {} THEN <<>>
    ELSE LET i == MinOf(starts)
             e == PhoneEndAt(t, i)
         IN <<[start |-> i, end |-> e]>> \o PhoneMatches(t, e)

\* while ((m = numRe.exec(text)))
RECURSIVE NumberMatches(_, _)
NumberMatches(t, from) ==
    LET starts == {i \in from..(Len(t) - 1) : NumberEndAt(t, i) >= 0} IN
    IF starts = {} THEN <<>>
    ELSE LET i == MinOf(starts)
             e == NumberEndAt(t, i)
         IN <<[start |-> i, end |-> e]>> \o NumberMatches(t, e)

\* the search returning the last occurrence instead of the first
WordSearchLast(t, p) ==
    LET hits == {i \in 0..(Len(t) - Len(p)) :
                    /\ IsBoundary(t, i)
                    /\ LitAtCI(t, i, p)
                    /\ IsBoundary(t, i + Len(p))}
    IN IF hits = {} THEN -1 ELSE MaxOf(hits)

\* new RegExp(`\\b${escRe(phrase)}\\b`, 'i').exec(text): index of the match, or -1
WordSearch(t, p) ==
    LET hits == {i \in 0..(Len(t) - Len(p)) :
                    /\ IsBoundary(t, i)
                    /\ LitAtCI(t, i, p)
                    /\ IsBoundary(t, i + Len(p))}
    IN IF hits = {} THEN -1 ELSE MinOf(hits)

\* tokenPresent(text, token)
tokenPresent(t, token) == WordSearch(t, token) >= 0

\* the alternatives of (?:is|:|=|to|as), in order
Separators == << <<"i","s">>, <<":">>, <<"=">>, <<"t","o">>, <<"a","s">> >>

\* the pattern without its separator group
SepLenAtNone(t, x) == 0

\* the length of the separator alternative that matches at x, 0 when none does
SepLenAt(t, x) ==
    LET m == {k \in DOMAIN Separators : LitAtCI(t, x, Separators[k])} IN
    IF m = {} THEN 0 ELSE Len(Separators[MinOf(m)])

\* \s*(?:is|:|=|to|as)?\s*([^,;\n\.]+) from index a: the first \s* ends at x, the
\* separator has length y (0: skipped), the capture starts at z.  Greedy: the
\* largest x, then the separator taken, then the largest z.
KvTail(t, a) ==
    LET all == UNION { UNION { { <<x, y, z>> : z \in (x + y)..RunEnd(t, x + y, Spaces) } :
                               y \in {0, SepLenAt(t, x)} } :
                       x \in a..RunEnd(t, a, Spaces) }
        Capture(z) == [ok |-> TRUE, capStart |-> z, end |-> RunEndNot(t, z, Terminators)]
        Taken(ok) ==
            IF ok = {} THEN [ok |-> FALSE, capStart |-> 0, end |-> 0]
            ELSE Capture((CHOOSE c \in ok : \A c2 \in ok : TriedFirst(c, c2))[3])
    IN Taken({c \in all : RunEndNot(t, c[3], Terminators) > c[3]})

\* the first alternative of phrases, in order, with which the key-value pattern
\* matches at index i; 0 when none does
KvPhraseAt(t, i, phrases) ==
    FirstWith({k \in DOMAIN phrases :
                 /\ IsBoundary(t, i)
                 /\ LitAtCI(t, i, phrases[k])
                 /\ IsBoundary(t, i + Len(phrases[k]))
                 /\ KvTail(t, i + Len(phrases[k])).ok})

\* new RegExp(`\\b(?:p1|p2|..)\\b\\s*(?:is|:|=|to|as)?\\s*([^,;\\n\\.]+)`, 'i').exec(text)
KvSearch(t, phrases) ==
    LET Match(i, tail) ==
            [found |-> TRUE, index |-> i, end |-> tail.end, capStart |-> tail.capStart]
        MatchAt(i) == Match(i, KvTail(t, i + Len(phrases[KvPhraseAt(t, i, phrases)])))
        Exec(hits) ==
            IF hits = {} THEN [found |-> FALSE, index |-> 0, end |-> 0, capStart |-> 0]
            ELSE MatchAt(MinOf(hits))
    IN Exec({i \in 0..(Len(t) - 1) : KvPhraseAt(t, i, phrases) > 0})

(***************************************************************************)
(* Span tracker.                                                           *)
(***************************************************************************)
spansOverlap(a, b) == a.start < b.end /\ b.start < a.end

\* insert x after the entries whose start is not greater: a stable sort step
RECURSIVE InsertByStart(_, _)
InsertByStart(sorted, x) ==
    IF sorted = <<>> THEN <<x>>
    ELSE IF x.start < sorted[1].start THEN <<x>> \o sorted
    ELSE <<sorted[1]>> \o InsertByStart(Tail(sorted), x)

\* spans.slice().sort((a, b) => a.start - b.start)
RECURSIVE SortByStart(_)
SortByStart(spans) ==
    IF spans = <<>> THEN <<>>
    ELSE InsertByStart(SortByStart(SubSeq(spans, 1, Len(spans) - 1)), spans[Len(spans)])

\* the for loop of mergeSpans over the sorted spans s, from entry i, with cur and out
RECURSIVE MergeLoop(_, _, _, _)
MergeLoop(s, i, cur, out) ==
    IF i > Len(s) THEN Append(out, cur)
    ELSE IF s[i].start <= cur.end
         THEN MergeLoop(s, i + 1,
                        [cur EXCEPT !.end = IF s[i].end > cur.end THEN s[i].end ELSE cur.end],
                        out)
         ELSE MergeLoop(s, i + 1, s[i], Append(out, cur))

\* the loop with the else branch extending cur instead of restarting it
RECURSIVE MergeLoopKeepStart(_, _, _, _)
MergeLoopKeepStart(s, i, cur, out) ==
    IF i > Len(s) THEN Append(out, cur)
    ELSE IF s[i].start <= cur.end
         THEN MergeLoopKeepStart(s, i + 1,
                        [cur EXCEPT !.end = IF s[i].end > cur.end THEN s[i].end ELSE cur.end],
                        out)
         ELSE MergeLoopKeepStart(s, i + 1, [cur EXCEPT !.end = s[i].end], Append(out, cur))

mergeSpansKeepStart(spans) ==
    IF spans = <<>> THEN <<>>
    ELSE LET s == SortByStart(spans) IN MergeLoopKeepStart(s, 2, s[1], <<>>)

mergeSpans(spans) ==
    IF spans = <<>> THEN <<>>
    ELSE LET s == SortByStart(spans) IN MergeLoop(s, 2, s[1], <<>>)

\* the test made against the span marked last only
isSpanFreeOfLast(used, span) ==
    used = <<>> \/ ~spansOverlap(used[Len(used)], span)

isSpanFree(used, span) == \A m \in Range(mergeSpans(used)) : ~spansOverlap(m, span)

(***************************************************************************)
(* Values of a FieldUpdate (value: any), in one record shape:              *)
(*   text    s: the characters                                             *)
(*   number  n: the integer part, s: the decimals, b: negative             *)
(*   bool    b                                                             *)
(*   option  s: <<option id>>                                              *)
(*   ids     s: the option ids of a checkbox, in push order                *)
(*   iso     s: the date phrase, n: the day the timestamp resolves to      *)
(***************************************************************************)
VText(s) == [kind |-> "text", s |-> s, n |-> 0, b |-> FALSE]

VNumber(n, frac, neg) == [kind |-> "number", s |-> frac, n |-> n, b |-> neg]

VBool(b) == [kind |-> "bool", s |-> <<>>, n |-> 0, b |-> b]

VOption(id) == [kind |-> "option", s |-> <<id>>, n |-> 0, b |-> FALSE]

VIds(ids) == [kind |-> "ids", s |-> ids, n |-> 0, b |-> FALSE]

VIso(phrase, day) == [kind |-> "iso", s |-> phrase, n |-> day, b |-> FALSE]

\* the characters of s that belong to class C, in order
RECURSIVE Keep(_, _)
Keep(s, C) ==
    IF s = <<>> THEN <<>>
    ELSE (IF s[1] \in C THEN <<s[1]>> ELSE <<>>) \o Keep(Tail(s), C)

\* the value of a run of decimal digits
RECURSIVE DigitsValue(_)
DigitsValue(ds) ==
    IF ds = <<>> THEN 0
    ELSE 10 * DigitsValue(SubSeq(ds, 1, Len(ds) - 1))
         + (CHOOSE d \in 0..9 : DigitSeq[d + 1] = ds[Len(ds)])

\* a run of decimals without its trailing zeros
RECURSIVE StripZeros(_)
StripZeros(ds) ==
    IF ds # <<>> /\ ds[Len(ds)] = "0" THEN StripZeros(SubSeq(ds, 1, Len(ds) - 1)) ELSE ds

NaN == [kind |-> "NaN", s |-> <<>>, n |-> 0, b |-> FALSE]

\* Number(str) for str over the characters 0-9 . - : a number value, or NaN
NumberOf(str) ==
    LET neg == str # <<>> /\ str[1] = "-"
        body == IF neg THEN Tail(str) ELSE str
        dots == {i \in DOMAIN body : body[i] = "."}
        dot == IF dots = {} THEN Len(body) + 1 ELSE MinOf(dots)
        int == SubSeq(body, 1, dot - 1)
        frac == SubSeq(body, dot + 1, Len(body))
    IN IF str = <<>> THEN VNumber(0, <<>>, FALSE)
       ELSE IF \/ Cardinality(dots) > 1
               \/ \E i \in DOMAIN body : body[i] = "-"
               \/ int \o frac = <<>>
            THEN NaN
            ELSE VNumber(DigitsValue(int), StripZeros(frac), neg)

\* s.includes(sub)
Includes(s, sub) == \E i \in 0..(Len(s) - Len(sub)) : LitAt(s, i, sub)

\* s.split(/\s+/).filter(Boolean): the words of s from index i on
RECURSIVE Tokens(_, _)
Tokens(s, i) ==
    LET a == RunEnd(s, i, Spaces)
        b == RunEndNot(s, a, Spaces)
    IN IF a >= Len(s) THEN <<>> ELSE <<Slice(s, a, b)>> \o Tokens(s, b)

\* insert phrase p after the phrases that are not shorter: a stable sort step
RECURSIVE InsertByLength(_, _)
InsertByLength(sorted, p) ==
    IF sorted = <<>> THEN <<p>>
    ELSE IF Len(p) > Len(sorted[1]) THEN <<p>> \o sorted
    ELSE <<sorted[1]>> \o InsertByLength(Tail(sorted), p)

\* phrases.filter(Boolean).sort((a, b) => b.length - a.length)
RECURSIVE LongestFirst(_)
LongestFirst(ps) ==
    IF ps = <<>> THEN <<>>
    ELSE LET rest == LongestFirst(SubSeq(ps, 1, Len(ps) - 1))
             p == ps[Len(ps)]
         IN IF p = <<>> THEN rest ELSE InsertByLength(rest, p)

\* updates.find((u) => u.fieldId === id) is defined
HasUpdate(ups, id) == \E i \in DOMAIN ups : ups[i].fieldId = id

(***************************************************************************)
(* The state of one parseTranscript call, threaded through the passes:     *)
(* st = [usedSpans, updates, debug].                                       *)
(***************************************************************************)
Event(type, field, span) ==
    [type |-> type, field |-> field, start |-> span.start, end |-> span.end]

NoSpan == [start |-> -1, end |-> -1]

Update(id, value, conf, evidence) ==
    [fieldId |-> id, value |-> value, confidence |-> conf, evidence |-> evidence]

Log(st, type, field, span) ==
    [st EXCEPT !.debug = Append(@, Event(type, field, span))]

Push(st, u) == [st EXCEPT !.updates = Append(@, u)]

\* markUsedRange(span, note)
markUsedRange(st, span, note) ==
    [st EXCEPT !.usedSpans = Append(@, span),
               !.debug = Append(@, Event("markSpan", note, span))]

\* the three steps every successful match takes: push, mark, log
Claim(st, u, span, type) ==
    Log(markUsedRange(Push(st, u), span, u.evidence), type, u.fieldId, span)

ConfEmail == 95
ConfPhone == 90
ConfChrono == 85
ConfOptionSingle == 92
ConfOptionCheckbox == 90
ConfOptionFuzzy == 75
ConfSwitch == 90
ConfNumber == 90
ConfKvOption == 85
ConfText == 60
ConfFallback == 55

(***************************************************************************)
(* 1) email                                                                *)
(***************************************************************************)
\* the target with the catch-all text field tried before the labels
EmailTargetTextFirst(sch) ==
    LET byType == FirstWith({ix \in DOMAIN sch : sch[ix].type = "email"})
        byLabel == FirstWith({ix \in DOMAIN sch : Includes(ToLower(sch[ix].label), <<"e","m","a","i","l">>)})
        byText == FirstWith({ix \in DOMAIN sch : sch[ix].type = "text"})
    IN IF byType # 0 THEN byType ELSE IF byText # 0 THEN byText ELSE byLabel

EmailTarget(sch) ==
    LET byType == FirstWith({ix \in DOMAIN sch : sch[ix].type = "email"})
        byLabel == FirstWith({ix \in DOMAIN sch : Includes(ToLower(sch[ix].label), <<"e","m","a","i","l">>)})
        byText == FirstWith({ix \in DOMAIN sch : sch[ix].type = "text"})
    IN IF byType # 0 THEN byType ELSE IF byLabel # 0 THEN byLabel ELSE byText

\* the loop with a match dropped once the target field has an update
RECURSIVE EmailLoopOnce(_, _, _, _)
EmailLoopOnce(sch, t, ms, st) ==
    IF ms = <<>> THEN st
    ELSE LET span == ms[1]
             target == EmailTarget(sch)
             next ==
                IF ~isSpanFree(st.usedSpans, span)
                THEN Log(st, "email-skip-overlap", "", span)
                ELSE IF target # 0 /\ ~HasUpdate(st.updates, sch[target].id)
                     THEN Claim(st, Update(sch[target].id, VText(Slice(t, span.start, span.end)),
                                           ConfEmail, "email"),
                                span, "email-match")
                     ELSE st
         IN EmailLoopOnce(sch, t, Tail(ms), next)

RECURSIVE EmailLoop(_, _, _, _)
EmailLoop(sch, t, ms, st) ==
    IF ms = <<>> THEN st
    ELSE LET span == ms[1]
             target == EmailTarget(sch)
             next ==
                IF ~isSpanFree(st.usedSpans, span)
                THEN Log(st, "email-skip-overlap", "", span)
                ELSE IF target # 0
                     THEN Claim(st, Update(sch[target].id, VText(Slice(t, span.start, span.end)),
                                           ConfEmail, "email"),
                                span, "email-match")
                     ELSE st
         IN EmailLoop(sch, t, Tail(ms), next)

EmailPass(sch, t, st) == EmailLoop(sch, t, EmailMatches(t, 0), st)

(***************************************************************************)
(* 2) phone                                                                *)
(***************************************************************************)
PhoneTarget(sch) ==
    LET byType == FirstWith({ix \in DOMAIN sch : sch[ix].type = "phone"})
        byLabel == FirstWith({ix \in DOMAIN sch :
                                 \/ Includes(ToLower(sch[ix].label), <<"p","h","o","n","e">>)
                                 \/ Includes(ToLower(sch[ix].label), <<"m","o","b","i","l","e">>)})
        byText == FirstWith({ix \in DOMAIN sch : sch[ix].type = "text"})
    IN IF byType # 0 THEN byType ELSE IF byLabel # 0 THEN byLabel ELSE byText

RECURSIVE PhoneLoop(_, _, _, _)
PhoneLoop(sch, t, ms, st) ==
    IF ms = <<>> THEN st
    ELSE LET raw == Trim(Slice(t, ms[1].start, ms[1].end))
             span == [start |-> ms[1].start, end |-> ms[1].start + Len(raw)]
             target == PhoneTarget(sch)
             next ==
                IF raw = <<>> THEN st
                ELSE IF ~isSpanFree(st.usedSpans, span)
                THEN Log(st, "phone-skip-overlap", "", span)
                ELSE IF target # 0
                     THEN Claim(st, Update(sch[target].id, VText(Keep(raw, Digits)),
                                           ConfPhone, "phone"),
                                span, "phone-match")
                     ELSE st
         IN PhoneLoop(sch, t, Tail(ms), next)

PhonePass(sch, t, st) == PhoneLoop(sch, t, PhoneMatches(t, 0), st)

(***************************************************************************)
(* 3) chrono date/time.  chrono-node is a library outside the repository:  *)
(* what it recognises is given by a lexicon of date phrases; a relative    *)
(* phrase resolves against the reference date, which chrono.parse(text)    *)
(* takes from the wall clock because the call passes none.                 *)
(***************************************************************************)
ChronoLexicon ==
    << [phrase |-> <<"t","o","m","o","r","r","o","w">>, relative |-> TRUE],
       [phrase |-> <<"5","/","1","/","2","0","2","4">>, relative |-> FALSE] >>

\* the lexicon entry that occurs as a whole word at index i, 0 when none does
ChronoAt(t, i) ==
    LET m == {k \in DOMAIN ChronoLexicon :
                /\ IsBoundary(t, i)
                /\ LitAtCI(t, i, ChronoLexicon[k].phrase)
                /\ IsBoundary(t, i + Len(ChronoLexicon[k].phrase))}
    IN IF m = {} THEN 0 ELSE MinOf(m)

\* chrono.parse(text) with reference date ref: the occurrences from index from on
RECURSIVE ChronoFrom(_, _, _)
ChronoFrom(t, from, ref) ==
    LET starts == {i \in from..(Len(t) - 1) : ChronoAt(t, i) > 0} IN
    IF starts = {} THEN <<>>
    ELSE LET i == MinOf(starts)
             e == ChronoLexicon[ChronoAt(t, i)]
         IN << [index |-> i,
                text |-> Slice(t, i, i + Len(e.phrase)),
                iso |-> VIso(e.phrase, IF e.relative THEN ref + 1 ELSE 0)] >>
            \o ChronoFrom(t, i + Len(e.phrase), ref)

ChronoParse(t, ref) == ChronoFrom(t, 0, ref)

IsDateType(type) == type \in {"date", "datetime", "time"}

\* for (const cr of chronoResults), from occurrence k on; cr.date().toISOString()
\* of occurrence badAt throws, which leaves the loop for the catch clause
RECURSIVE ChronoLoop(_, _, _, _, _)
ChronoLoop(sch, occs, k, badAt, st) ==
    IF k > Len(occs) THEN st
    ELSE LET cr == occs[k]
             span == [start |-> cr.index, end |-> cr.index + Len(cr.text)]
             candidate == FirstWith({ix \in DOMAIN sch :
                                       /\ IsDateType(sch[ix].type)
                                       /\ ~HasUpdate(st.updates, sch[ix].id)})
         IN IF ~isSpanFree(st.usedSpans, span)
            THEN ChronoLoop(sch, occs, k + 1, badAt,
                            Log(st, "chrono-skip-overlap", "", span))
            ELSE IF candidate = 0
            THEN ChronoLoop(sch, occs, k + 1, badAt, st)
            ELSE IF k = badAt
            THEN Log(st, "chrono-error", "", span)
            ELSE ChronoLoop(sch, occs, k + 1, badAt,
                            Claim(st, Update(sch[candidate].id, cr.iso, ConfChrono, "chrono"),
                                  span, "chrono-match"))

ChronoPass(sch, t, ref, badAt, st) == ChronoLoop(sch, ChronoParse(t, ref), 1, badAt, st)

(***************************************************************************)
(* 4) option fields (select/radio/checkbox)                                *)
(***************************************************************************)
IsOptionType(type) == type \in {"select", "radio", "checkbox"}

\* [opt.label, ...(opt.synonyms ?? [])].filter(Boolean)
RECURSIVE NonEmpty(_)
NonEmpty(ps) ==
    IF ps = <<>> THEN <<>>
    ELSE (IF ps[1] = <<>> THEN <<>> ELSE <<ps[1]>>) \o NonEmpty(Tail(ps))

\* a new candidate pushed for every option found
AddCheckboxPushEach(st, id, optId, conf, evidence) ==
    Push(st, Update(id, VIds(<<optId>>), conf, evidence))

\* existing ? existing.value.push(opt.id) : updates.push({value: [opt.id], ..})
AddCheckbox(st, id, optId, conf, evidence) ==
    LET existing == FirstWith({ix \in DOMAIN st.updates :
                                  /\ st.updates[ix].fieldId = id
                                  /\ st.updates[ix].value.kind = "ids"}) IN
    IF existing # 0
    THEN [st EXCEPT !.updates[existing].value.s = Append(@, optId)]
    ELSE Push(st, Update(id, VIds(<<optId>>), conf, evidence))

\* for (const phrase of phrases), from phrase k on; acc = [st, matched, stop]
RECURSIVE OptionExactPhrases(_, _, _, _, _, _)
OptionExactPhrases(field, opt, t, phrases, k, acc) ==
    IF k > Len(phrases) \/ acc.stop THEN acc
    ELSE LET idx == WordSearch(t, phrases[k])
             span == [start |-> idx, end |-> idx + Len(phrases[k])]
         IN IF idx < 0
            THEN OptionExactPhrases(field, opt, t, phrases, k + 1, acc)
            ELSE IF ~isSpanFree(acc.st.usedSpans, span)
            THEN OptionExactPhrases(field, opt, t, phrases, k + 1,
                    [acc EXCEPT !.st = Log(@, "option-skip-overlap", field.id, span)])
            ELSE IF field.type = "checkbox"
            THEN OptionExactPhrases(field, opt, t, phrases, k + 1,
                    [acc EXCEPT
                       !.st = Log(markUsedRange(
                                    AddCheckbox(@, field.id, opt.id, ConfOptionCheckbox,
                                                "option-exact"),
                                    span, "option-exact"),
                                  "option-exact", field.id, span),
                       !.matched = TRUE])
            ELSE [st |-> Claim(acc.st, Update(field.id, VOption(opt.id), ConfOptionSingle,
                                              "option-exact"),
                               span, "option-exact"),
                  matched |-> TRUE,
                  stop |-> TRUE]

\* for (const opt of field.options), from option j on
RECURSIVE OptionExactOpts(_, _, _, _)
OptionExactOpts(field, t, j, acc) ==
    IF j > Len(field.options) \/ acc.stop THEN acc
    ELSE OptionExactOpts(field, t, j + 1,
            OptionExactPhrases(field, field.options[j], t,
                               LongestFirst(<<field.options[j].label>>
                                            \o field.options[j].synonyms),
                               1, acc))

\* for (const cand of candidates), from candidate k on: [st, fuzzyMatched]
RECURSIVE OptionFuzzyCands(_, _, _, _, _, _)
OptionFuzzyCands(field, opt, t, cands, k, st) ==
    IF k > Len(cands) THEN [st |-> st, fuzzyMatched |-> FALSE]
    ELSE LET tokens == Tokens(ToLower(cands[k]), 0) IN
         IF tokens = <<>> \/ \E i \in DOMAIN tokens : ~tokenPresent(t, tokens[i])
         THEN OptionFuzzyCands(field, opt, t, cands, k + 1, st)
         ELSE [st |-> Log(IF field.type = "checkbox"
                          THEN AddCheckbox(st, field.id, opt.id, ConfOptionFuzzy, "option-fuzzy")
                          ELSE Push(st, Update(field.id, VOption(opt.id), ConfOptionFuzzy,
                                               "option-fuzzy")),
                          "option-fuzzy", field.id, NoSpan),
               fuzzyMatched |-> TRUE]

\* the fuzzy loop over field.options, from option j on
RECURSIVE OptionFuzzyOpts(_, _, _, _)
OptionFuzzyOpts(field, t, j, st) ==
    IF j > Len(field.options) THEN st
    ELSE LET r == OptionFuzzyCands(field, field.options[j], t,
                                   NonEmpty(<<field.options[j].label>>
                                            \o field.options[j].synonyms),
                                   1, st)
         IN IF r.fuzzyMatched /\ field.type # "checkbox" THEN r.st
            ELSE OptionFuzzyOpts(field, t, j + 1, r.st)

\* the body with the fuzzy strategy run whatever the exact one found
OptionFieldBoth(field, t, st) ==
    IF ~IsOptionType(field.type) \/ field.options = <<>> THEN st
    ELSE OptionFuzzyOpts(field, t, 1,
            OptionExactOpts(field, t, 1, [st |-> st, matched |-> FALSE, stop |-> FALSE]).st)

\* the body of the loop over the option fields, for one field
OptionField(field, t, st) ==
    IF ~IsOptionType(field.type) \/ field.options = <<>> THEN st
    ELSE LET exact == OptionExactOpts(field, t, 1,
                                      [st |-> st, matched |-> FALSE, stop |-> FALSE])
         IN IF exact.matched THEN exact.st ELSE OptionFuzzyOpts(field, t, 1, exact.st)

RECURSIVE OptionLoop(_, _, _, _)
OptionLoop(sch, t, i, st) ==
    IF i > Len(sch) THEN st ELSE OptionLoop(sch, t, i + 1, OptionField(sch[i], t, st))

OptionPass(sch, t, st) == OptionLoop(sch, t, 1, st)

(***************************************************************************)
(* 5) booleans / switches                                                  *)
(***************************************************************************)
trueWords ==
    << <<"y","e","s">>, <<"t","r","u","e">>, <<"e","n","a","b","l","e">>,
       <<"e","n","a","b","l","e","d">>, <<"o","n">>, <<"a","l","l","o","w">>,
       <<"a","l","l","o","w","e","d">> >>

falseWords ==
    << <<"n","o">>, <<"f","a","l","s","e">>, <<"d","i","s","a","b","l","e">>,
       <<"d","i","s","a","b","l","e","d">>, <<"o","f","f">>, <<"d","o","n","'","t">>,
       <<"d","o"," ","n","o","t">>, <<"n","o","t">> >>

\* words.some((w) => valueStr.includes(w))
SomeIncluded(words, valueStr) == \E k \in DOMAIN words : Includes(valueStr, words[k])

\* the first loop over labelPhrases, from phrase k on: [st, matched]
RECURSIVE SwitchLabelLoop(_, _, _, _, _)
SwitchLabelLoop(field, t, lps, k, st) ==
    IF k > Len(lps) THEN [st |-> st, matched |-> FALSE]
    ELSE LET Decide(span, isTrue, isFalse) ==
                IF ~isSpanFree(st.usedSpans, span)
                THEN [st |-> Log(st, "switch-skip-overlap", field.id, span),
                      matched |-> FALSE]
                ELSE IF isTrue \/ isFalse
                THEN [st |-> Claim(st, Update(field.id, VBool(isTrue), ConfSwitch,
                                              "label-boolean"),
                                   span, "switch-match"),
                      matched |-> TRUE]
                ELSE SwitchLabelLoop(field, t, lps, k + 1, st)
             Value(span, valueStr) ==
                Decide(span, SomeIncluded(trueWords, valueStr),
                       SomeIncluded(falseWords, valueStr))
             Matched(m) ==
                IF ~m.found THEN SwitchLabelLoop(field, t, lps, k + 1, st)
                ELSE Value([start |-> m.index, end |-> m.end],
                           ToLower(Slice(t, m.capStart, m.end)))
         IN Matched(KvSearch(t, <<lps[k]>>))

\* turn\s+LP\s+(on|off) at index i: the label starts at x, the word at y, which is
\* "on" (w = 1) or "off" (w = 0); greedy, so the largest x, then the largest y
TurnAt(t, i, lp) ==
    IF ~LitAtCI(t, i, <<"t","u","r","n">>) THEN {}
    ELSE LET xs == {x \in (i + 5)..RunEnd(t, i + 4, Spaces) : LitAtCI(t, x, lp)}
             Ys(x) == (x + Len(lp) + 1)..RunEnd(t, x + Len(lp), Spaces)
         IN UNION { UNION { { <<x, y, w>> : w \in {v \in {0, 1} :
                                LitAtCI(t, y, IF v = 1 THEN <<"o","n">>
                                                       ELSE <<"o","f","f">>)} } :
                            y \in Ys(x) } : x \in xs }

\* new RegExp(`turn\\s+${escRe(lp)}\\s+(on|off)`, 'i').exec(text): [found, on]
TurnSearch(t, lp) ==
    LET hits == {i \in 0..(Len(t) - 1) : TurnAt(t, i, lp) # {}} IN
    IF hits = {} THEN [found |-> FALSE, on |-> FALSE]
    ELSE LET ok == TurnAt(t, MinOf(hits), lp)
             c == CHOOSE c \in ok : \A c2 \in ok : TriedFirst(c, c2)
         IN [found |-> TRUE, on |-> c[3] = 1]

\* the fallback loop with the match marked as used
RECURSIVE SwitchTurnLoopMarking(_, _, _, _, _)
SwitchTurnLoopMarking(field, t, lps, k, st) ==
    IF k > Len(lps) THEN st
    ELSE LET m == TurnSearch(t, lps[k]) IN
         IF m.found
         THEN Claim(st, Update(field.id, VBool(m.on), ConfSwitch, "turn-on-off"),
                    [start |-> 0, end |-> Len(t)], "switch-turn")
         ELSE SwitchTurnLoopMarking(field, t, lps, k + 1, st)

\* the fallback loop over labelPhrases, from phrase k on
RECURSIVE SwitchTurnLoop(_, _, _, _, _)
SwitchTurnLoop(field, t, lps, k, st) ==
    IF k > Len(lps) THEN st
    ELSE LET m == TurnSearch(t, lps[k]) IN
         IF m.found
         THEN Log(Push(st, Update(field.id, VBool(m.on), ConfSwitch, "turn-on-off")),
                  "switch-turn", field.id, NoSpan)
         ELSE SwitchTurnLoop(field, t, lps, k + 1, st)

\* the body of the loop over the switch fields, for one field
SwitchField(field, t, st) ==
    IF field.type # "switch" THEN st
    ELSE LET lps == LongestFirst(<<field.label>> \o field.synonyms)
             first == SwitchLabelLoop(field, t, lps, 1, st)
         IN IF first.matched THEN first.st ELSE SwitchTurnLoop(field, t, lps, 1, first.st)

RECURSIVE SwitchLoop(_, _, _, _)
SwitchLoop(sch, t, i, st) ==
    IF i > Len(sch) THEN st ELSE SwitchLoop(sch, t, i + 1, SwitchField(sch[i], t, st))

SwitchPass(sch, t, st) == SwitchLoop(sch, t, 1, st)

(***************************************************************************)
(* 6) numbers                                                              *)
(***************************************************************************)
\* the loop without the test that the field has no update yet
RECURSIVE NumberLoopAnyField(_, _, _, _)
NumberLoopAnyField(sch, t, ms, st) ==
    IF ms = <<>> THEN st
    ELSE LET span == ms[1]
             rawNum == Slice(t, span.start, span.end)
             field == FirstWith({ix \in DOMAIN sch : sch[ix].type = "number"})
             next ==
                IF ~isSpanFree(st.usedSpans, span)
                THEN Log(st, "number-skip-overlap", "", span)
                ELSE IF field # 0
                     THEN Claim(st, Update(sch[field].id,
                                           NumberOf(Keep(rawNum, Digits \cup {"."})),
                                           ConfNumber, "digits"),
                                span, "number-match")
                     ELSE st
         IN NumberLoopAnyField(sch, t, Tail(ms), next)

\* the loop without the test that the span is free
RECURSIVE NumberLoopAnySpan(_, _, _, _)
NumberLoopAnySpan(sch, t, ms, st) ==
    IF ms = <<>> THEN st
    ELSE LET span == ms[1]
             rawNum == Slice(t, span.start, span.end)
             field == FirstWith({ix \in DOMAIN sch :
                                   /\ sch[ix].type = "number"
                                   /\ ~HasUpdate(st.updates, sch[ix].id)})
             next ==
                IF field # 0
                THEN Claim(st, Update(sch[field].id,
                                      NumberOf(Keep(rawNum, Digits \cup {"."})),
                                      ConfNumber, "digits"),
                           span, "number-match")
                ELSE st
         IN NumberLoopAnySpan(sch, t, Tail(ms), next)

RECURSIVE NumberLoop(_, _, _, _)
NumberLoop(sch, t, ms, st) ==
    IF ms = <<>> THEN st
    ELSE LET span == ms[1]
             rawNum == Slice(t, span.start, span.end)
             field == FirstWith({ix \in DOMAIN sch :
                                   /\ sch[ix].type = "number"
                                   /\ ~HasUpdate(st.updates, sch[ix].id)})
             next ==
                IF ~isSpanFree(st.usedSpans, span)
                THEN Log(st, "number-skip-overlap", "", span)
                ELSE IF field # 0
                     THEN Claim(st, Update(sch[field].id,
                                           NumberOf(Keep(rawNum, Digits \cup {"."})),
                                           ConfNumber, "digits"),
                                span, "number-match")
                     ELSE st
         IN NumberLoop(sch, t, Tail(ms), next)

NumberPass(sch, t, st) == NumberLoop(sch, t, NumberMatches(t, 0), st)

(***************************************************************************)
(* coerceValue(field, raw): [ok, value, confidence]; ok = FALSE is null.   *)
(* ref is the reference date chrono.parse(t) reads from the wall clock.    *)
(* A throw of the date conversion is caught there and gives null as an     *)
(* unparsed text does; conversions of captured text are taken not to throw.*)
(***************************************************************************)
Null == [ok |-> FALSE, value |-> VText(<<>>), confidence |-> 0]

\* the confidence taken as a percentage of the literal
CoercedAsPercent(value, conf) == [ok |-> TRUE, value |-> value, confidence |-> conf * 100]

Coerced(value, conf) == [ok |-> TRUE, value |-> value, confidence |-> conf]

coerceValue(field, raw, ref) ==
    LET AsNumber(num) == IF num # NaN THEN Coerced(num, ConfNumber) ELSE Null
        AsDate(parsed) == IF parsed # <<>> THEN Coerced(parsed[1].iso, ConfChrono) ELSE Null
        AsEmail(t, m) ==
            IF m # <<>> THEN Coerced(VText(Slice(t, m[1].start, m[1].end)), ConfEmail)
            ELSE Null
        AsPhone(t, m) ==
            IF m # <<>>
            THEN Coerced(VText(Keep(Slice(t, m[1].start, m[1].end), Digits \cup {"+"})),
                         ConfPhone)
            ELSE Null
        Of(t) ==
            IF t = <<>> THEN Null
            ELSE IF field.type = "number"
            THEN AsNumber(NumberOf(Keep(t, Digits \cup {".", "-"})))
            ELSE IF IsDateType(field.type) THEN AsDate(ChronoParse(t, ref))
            ELSE IF field.type = "email" THEN AsEmail(t, EmailMatches(t, 0))
            ELSE IF field.type = "phone" THEN AsPhone(t, PhoneMatches(t, 0))
            ELSE IF IsOptionType(field.type) THEN Null
            ELSE Coerced(VText(t), ConfText)
    IN Of(Trim(raw))

(***************************************************************************)
(* 7) label-based key:value generic mapping                                *)
(***************************************************************************)
\* the ids of the options whose lower-cased label occurs as a whole word in rawVal
RECURSIVE FoundIds(_, _)
FoundIds(options, rawVal) ==
    IF options = <<>> THEN <<>>
    ELSE (IF WordSearch(rawVal, ToLower(options[1].label)) >= 0
          THEN <<options[1].id>> ELSE <<>>)
         \o FoundIds(Tail(options), rawVal)

\* the body of the loop over the schema, for one field
LabelKvField(field, t, ref, st) ==
    LET Assign(span, rawVal, coerced, foundIds) ==
            IF coerced.ok
            THEN Claim(st, Update(field.id, coerced.value, coerced.confidence, "label-kv"),
                       span, "labelkv-match-coerced")
            ELSE IF IsOptionType(field.type) /\ field.options # <<>> /\ foundIds # <<>>
            THEN Claim(st, Update(field.id,
                                  IF field.type = "checkbox" THEN VIds(foundIds)
                                  ELSE VOption(foundIds[1]),
                                  ConfKvOption, "label-kv-option"),
                       span, "labelkv-option")
            ELSE Claim(st, Update(field.id, VText(rawVal), ConfText, "label-kv-text"),
                       span,
                       IF IsOptionType(field.type) /\ field.options # <<>>
                       THEN "labelkv-text" ELSE "labelkv-text-fallback")
        Captured(span, rawVal) ==
            IF ~isSpanFree(st.usedSpans, span)
            THEN Log(st, "labelkv-skip-overlap", field.id, span)
            ELSE Assign(span, rawVal, coerceValue(field, rawVal, ref),
                        FoundIds(field.options, rawVal))
        Matched(r) ==
            IF ~r.found THEN st
            ELSE Captured([start |-> r.index, end |-> r.end],
                          Trim(Slice(t, r.capStart, r.end)))
        Labelled(labelPhrases) ==
            IF HasUpdate(st.updates, field.id) \/ labelPhrases = <<>> THEN st
            ELSE Matched(KvSearch(t, labelPhrases))
    IN Labelled(LongestFirst(<<field.label>> \o field.synonyms \o <<field.idText>>))

RECURSIVE LabelKvLoop(_, _, _, _, _)
LabelKvLoop(sch, t, ref, i, st) ==
    IF i > Len(sch) THEN st
    ELSE LabelKvLoop(sch, t, ref, i + 1, LabelKvField(sch[i], t, ref, st))

LabelKvPass(sch, t, ref, st) == LabelKvLoop(sch, t, ref, 1, st)

(***************************************************************************)
(* 8) fallback: assign leftover clauses to empty text fields               *)
(***************************************************************************)
\* the loop over the merged spans, from span k on: the unclaimed parts of the text
RECURSIVE LeftoverParts(_, _, _, _)
LeftoverParts(t, merged, k, cursor) ==
    IF k > Len(merged)
    THEN IF cursor < Len(t) THEN <<Slice(t, cursor, Len(t))>> ELSE <<>>
    ELSE (IF cursor < merged[k].start THEN <<Slice(t, cursor, merged[k].start)>> ELSE <<>>)
         \o LeftoverParts(t, merged, k + 1,
                          IF merged[k].end > cursor THEN merged[k].end ELSE cursor)

\* parts.join(' ')
RECURSIVE JoinSpace(_)
JoinSpace(parts) ==
    IF parts = <<>> THEN <<>>
    ELSE IF Len(parts) = 1 THEN parts[1]
    ELSE parts[1] \o <<" ">> \o JoinSpace(Tail(parts))

\* the leftover taken to be the whole text
LeftoverOfWholeText(t, used) == Trim(t)

Leftover(t, used) ==
    IF used = <<>> THEN Trim(t)
    ELSE Trim(JoinSpace(LeftoverParts(t, mergeSpans(used), 1, 0)))

\* the length of the match of /\b(?:,|;|\band\b|\n)\b/ at index i, 0 when none
ClauseSepAt(s, i) ==
    IF ~IsBoundary(s, i) THEN 0
    ELSE IF At(s, i) \in {",", ";", "\n"} /\ IsBoundary(s, i + 1) THEN 1
    ELSE IF LitAt(s, i, <<"a","n","d">>) /\ IsBoundary(s, i + 3) THEN 3
    ELSE 0

\* leftover.split(/\b(?:,|;|\band\b|\n)\b/): the pieces of s from index p on
RECURSIVE SplitClauses(_, _)
SplitClauses(s, p) ==
    LET seps == {i \in p..(Len(s) - 1) : ClauseSepAt(s, i) > 0} IN
    IF seps = {} THEN <<Slice(s, p, Len(s))>>
    ELSE LET q == MinOf(seps) IN <<Slice(s, p, q)>> \o SplitClauses(s, q + ClauseSepAt(s, q))

\* .map((c) => c.trim()).filter(Boolean)
RECURSIVE TrimAll(_)
TrimAll(cs) ==
    IF cs = <<>> THEN <<>>
    ELSE (IF Trim(cs[1]) = <<>> THEN <<>> ELSE <<Trim(cs[1])>>) \o TrimAll(Tail(cs))

Clauses(leftover) == TrimAll(SplitClauses(leftover, 0))

\* schema.filter((f) => ['text'].includes(f.type) && !updates.find(..))
RECURSIVE EmptyTextFields(_, _)
EmptyTextFields(sch, ups) ==
    IF sch = <<>> THEN <<>>
    ELSE (IF sch[1].type = "text" /\ ~HasUpdate(ups, sch[1].id) THEN <<sch[1]>> ELSE <<>>)
         \o EmptyTextFields(Tail(sch), ups)

\* for (const cl of clauses), from clause k on, idx fields assigned so far
RECURSIVE FallbackLoop(_, _, _, _, _)
FallbackLoop(clauses, fields, k, idx, st) ==
    IF k > Len(clauses) \/ idx >= Len(fields) THEN st
    ELSE IF Len(clauses[k]) < 2 THEN FallbackLoop(clauses, fields, k + 1, idx, st)
    ELSE FallbackLoop(clauses, fields, k + 1, idx + 1,
            Log(Push(st, Update(fields[idx + 1].id, VText(clauses[k]), ConfFallback,
                                "fallback-clause")),
                "fallback-assign", fields[idx + 1].id, NoSpan))

LeftoverPass(sch, t, st) ==
    LET leftover == Leftover(t, st.usedSpans) IN
    IF leftover = <<>> THEN st
    ELSE FallbackLoop(Clauses(leftover), EmptyTextFields(sch, st.updates), 1, 0, st)

(***************************************************************************)
(* final dedupe: pick best confidence per fieldId.  A Map keeps its keys   *)
(* in insertion order; set on a present key replaces the value in place.   *)
(***************************************************************************)
\* set without the lookup of the key
MapSetNoLookup(map, u) == Append(map, u)

\* the comparison taken as >=
MapSetLastWins(map, u) ==
    LET at == FirstWith({ix \in DOMAIN map : map[ix].fieldId = u.fieldId}) IN
    IF at = 0 THEN Append(map, u)
    ELSE IF u.confidence >= map[at].confidence THEN [map EXCEPT ![at] = u]
    ELSE map

\* a new key put in front of the map instead of behind it
MapSetInFront(map, u) ==
    LET at == FirstWith({ix \in DOMAIN map : map[ix].fieldId = u.fieldId}) IN
    IF at = 0 THEN <<u>> \o map
    ELSE IF u.confidence > map[at].confidence THEN [map EXCEPT ![at] = u]
    ELSE map

MapSet(map, u) ==
    LET at == FirstWith({ix \in DOMAIN map : map[ix].fieldId = u.fieldId}) IN
    IF at = 0 THEN Append(map, u)
    ELSE IF u.confidence > map[at].confidence THEN [map EXCEPT ![at] = u]
    ELSE map

RECURSIVE DedupeLoop(_, _)
DedupeLoop(ups, map) ==
    IF ups = <<>> THEN map ELSE DedupeLoop(Tail(ups), MapSet(map, ups[1]))

Dedupe(ups) == DedupeLoop(ups, <<>>)

(***************************************************************************)
(* parseTranscript as a whole, and pass by pass.                           *)
(***************************************************************************)
EmptyState == [usedSpans |-> <<>>, updates |-> <<>>, debug |-> <<>>]

\* the passes in the order of the function body
RunPasses(sch, t, ref, badAt) ==
    LeftoverPass(sch, t,
      LabelKvPass(sch, t, ref,
        NumberPass(sch, t,
          SwitchPass(sch, t,
            OptionPass(sch, t,
              ChronoPass(sch, t, ref, badAt,
                PhonePass(sch, t,
                  EmailPass(sch, t, EmptyState))))))))

\* parseTranscript(schema, transcript).updates
parseTranscript(sch, t, ref, badAt) == Dedupe(RunPasses(sch, t, ref, badAt).updates)

(***************************************************************************)
(* Inputs: schemas and transcripts.                                        *)
(***************************************************************************)
(***************************************************************************)
(* Downstream of the engine: validateField of the form utilities, applied  *)
(* to each returned update.  The fields of the model carry no pattern, min *)
(* or max, so the checks that read them never fire.                        *)
(***************************************************************************)
\* Date.prototype.toISOString of the date an occurrence resolves to:
\* YYYY-MM-DDTHH:mm:ss.sssZ, the time of day chrono implies being noon
toISOString(v) ==
    (IF v.s = ChronoLexicon[2].phrase
     THEN <<"2","0","2","4","-","0","5","-","0","1">>
     ELSE <<"2","0","2","5","-","0","1","-","0">> \o <<DigitSeq[v.n + 2]>>)
    \o <<"T","1","2",":","0","0",":","0","0",".","0","0","0","Z">>

NoError == "null"

\* validateField(field, value): NoError, or the message; zone is the sign of
\* the host's offset from UTC, which new Date(s + 'T00:00:00') depends on
validateField(field, value, zone) ==
    LET \* String(value) of the values the validator reads as strings
        StringOf(v) == IF v.kind = "iso" THEN toISOString(v) ELSE v.s
        \* the spelling of the option ids of the model's schemas
        IdText(id) ==
            [mob |-> <<"m","o","b">>, home |-> <<"h","o","m","e">>, blr |-> <<"b","l","r">>,
             mum |-> <<"m","u","m">>, en |-> <<"e","n">>, hi |-> <<"h","i">>][id]
        isEmpty(v) ==
            \/ v.kind = "text" /\ Trim(v.s) = <<>>
            \/ v.kind = "ids" /\ v.s = <<>>
        AllDigits(s, from, to) == \A i \in from..to : s[i] \in Digits
        \* /^\d{4}-\d{2}-\d{2}$/ on s[from .. from + 9]
        DateAt(s, from) ==
            /\ AllDigits(s, from, from + 3) /\ s[from + 4] = "-"
            /\ AllDigits(s, from + 5, from + 6) /\ s[from + 7] = "-"
            /\ AllDigits(s, from + 8, from + 9)
        \* /^([01]\d|2[0-3]):[0-5]\d$/ on s[from .. from + 4]
        TimeAt(s, from) ==
            /\ \/ s[from] \in {"0", "1"} /\ s[from + 1] \in Digits
               \/ s[from] = "2" /\ s[from + 1] \in {"0", "1", "2", "3"}
            /\ s[from + 2] = ":"
            /\ s[from + 3] \in {"0", "1", "2", "3", "4", "5"} /\ s[from + 4] \in Digits
        DaysIn(y, m) ==
            IF m = 2 THEN (IF y % 4 = 0 /\ (y % 100 # 0 \/ y % 400 = 0) THEN 29 ELSE 28)
            ELSE IF m \in {4, 6, 9, 11} THEN 30 ELSE 31
        \* the date exists, and read at local midnight it is the same day in UTC
        SameUtcDay(y, m, d) == m \in 1..12 /\ d \in 1..DaysIn(y, m) /\ zone <= 0
        OfDate(s) ==
            IF ~(Len(s) = 10 /\ DateAt(s, 1)) THEN "Use YYYY-MM-DD"
            ELSE IF ~SameUtcDay(DigitsValue(SubSeq(s, 1, 4)), DigitsValue(SubSeq(s, 6, 7)),
                                DigitsValue(SubSeq(s, 9, 10)))
            THEN "Invalid date" ELSE NoError
        OfTime(s) == IF Len(s) = 5 /\ TimeAt(s, 1) THEN NoError ELSE "Use HH:mm (24h)"
        OfDateTime(s) ==
            IF Len(s) = 16 /\ DateAt(s, 1) /\ s[11] \in {" ", "T"} /\ TimeAt(s, 12)
            THEN NoError ELSE "Use YYYY-MM-DD HH:mm"
        OfNumber(v) ==
            IF \/ v.kind = "number"
               \/ /\ v.kind = "text"
                  /\ Keep(Trim(v.s), Digits \cup {".", "-"}) = Trim(v.s)
                  /\ NumberOf(Trim(v.s)) # NaN
            THEN NoError ELSE "must be a number"
        OfPhone(s) == IF Len(s) = 10 /\ AllDigits(s, 1, 10) THEN NoError
                      ELSE "Enter a 10-digit phone number"
        IsId(x) == \E k \in DOMAIN field.options : x = field.options[k].id
        SpellsId(s) == \E k \in DOMAIN field.options : s = IdText(field.options[k].id)
        OfOption(v) ==
            IF (v.kind = "option" /\ IsId(v.s[1])) \/ (v.kind = "text" /\ SpellsId(v.s))
            THEN NoError ELSE "Select a valid option"
        OfCheckbox(v) ==
            IF v.kind # "ids" \/ \A k \in DOMAIN v.s : IsId(v.s[k])
            THEN NoError ELSE "Contains invalid option(s)"
    IN IF isEmpty(value) THEN NoError
       ELSE CASE field.type = "number" -> OfNumber(value)
              [] field.type = "phone" -> OfPhone(StringOf(value))
              [] field.type = "date" -> OfDate(Trim(StringOf(value)))
              [] field.type = "time" -> OfTime(StringOf(value))
              [] field.type = "datetime" -> OfDateTime(StringOf(value))
              [] field.type \in {"radio", "select"} -> OfOption(value)
              [] field.type = "checkbox" -> OfCheckbox(value)
              [] OTHER -> NoError

Fld(id, idText, label, type, options, synonyms) ==
    [id |-> id, idText |-> idText, label |-> label, type |-> type,
     options |-> options, synonyms |-> synonyms]

Opt(id, label, synonyms) == [id |-> id, label |-> label, synonyms |-> synonyms]

fName == Fld("name", <<"n","a","m","e">>, <<"N","a","m","e">>, "text", <<>>, <<>>)
fEmail == Fld("email", <<"e","m","a","i","l">>, <<"E","m","a","i","l">>, "email", <<>>, <<>>)
fPhone == Fld("phone", <<"p","h","o","n","e">>, <<"P","h","o","n","e">>, "phone", <<>>, <<>>)
fDob == Fld("dob", <<"d","o","b">>, <<"B","i","r","t","h","d","a","y">>, "date", <<>>, <<>>)
fWhen == Fld("when", <<"w","h","e","n">>, <<"W","h","e","n">>, "datetime", <<>>, <<>>)
fAge == Fld("age", <<"a","g","e">>, <<"A","g","e">>, "number", <<>>, <<>>)
fKind ==
    Fld("kind", <<"k","i","n","d">>, <<"P","h","o","n","e"," ","t","y","p","e">>, "select",
        <<Opt("mob", <<"m","o","b","i","l","e">>, <<>>), Opt("home", <<"h","o","m","e">>, <<>>)>>, <<>>)
fSubscribe == Fld("subscribe", <<"s","u","b","s","c","r","i","b","e">>, <<"S","u","b","s","c","r","i","b","e">>, "switch", <<>>, <<>>)

Schemas ==
    { <<fName, fEmail>>,
      <<fDob, fAge>>,
      <<fAge>>,
      <<fKind, fName>>,
      <<fDob, fWhen, fPhone>>,
      <<fSubscribe, fEmail, fAge>> }

\* the pieces transcripts are put together from, one space between two pieces
Chunks ==
    { <<"a","@","b",".","c","o">>,
      <<"c","@","d",".","c","o">>,
      <<"9","8","7","6","5","4","3","2">>,
      <<"5","/","1","/","2","0","2","4">>,
      <<"t","o","m","o","r","r","o","w">>,
      <<"2","9">>,
      <<"m","o","b","i","l","e">>,
      <<"S","u","b","s","c","r","i","b","e",":"," ","y","e","s">>,
      <<"N","a","m","e",":"," ","A","l">>,
      <<" ">> }

\* Scenario A of the specification
ScenarioA == <<"M","y"," ","n","a","m","e"," ","i","s"," ","A","l","e","x"," ","D","o","e",","," ","e","m","a","i","l"," ","a","l","e","x","@","e","x","a","m","p","l","e",".","c","o","m">>

\* the labels the name field of Scenario A is tried with (the scenario gives
\* none; <<>> is a label that is not set)
NameLabels ==
    { <<"N","a","m","e">>, <<>>, <<"M","y">>, <<"F","u","l","l"," ","n","a","m","e">> }

\* the schema of Scenario A: [{id: name, type: text}, {id: email, type: email}]
ScenarioASchemas ==
    { <<Fld("name", <<"n","a","m","e">>, l, "text", <<>>, <<>>), fEmail>> : l \in NameLabels }

MaxChunks == 2

\* the readings of the wall clock, in days: the first call runs on day 0
Clock == {0, 1}

ChunkSeqs == UNION { [1..k -> Chunks] : k \in 0..MaxChunks }

Transcripts == { JoinSpace(cs) : cs \in ChunkSeqs } \cup {ScenarioA}

\* the transcripts put together from at most MaxChunks of the given pieces
TranscriptsOf(chunks) ==
    { JoinSpace(cs) : cs \in UNION { [1..k -> chunks] : k \in 0..MaxChunks } }

\* a switch with a synonym of its label
fNotify ==
    Fld("notify", <<"n","o","t","i","f","y">>, <<"A","l","e","r","t","s">>, "switch", <<>>,
        << <<"N","e","w","s">> >>)

\* Scenario B of the specification, and a switch next to an e-mail field
SwitchSchemas == { <<fSubscribe>>, <<fNotify, fEmail>> }

SwitchChunks ==
    { <<"S","u","b","s","c","r","i","b","e",":"," ","y","e","s">>,
      <<"S","u","b","s","c","r","i","b","e",":"," ","n","o","t"," ","o","n">>,
      <<"N","e","w","s"," ","o","f","f",".">>,
      <<"A","l","e","r","t","s"," ","i","s"," ","o","n",",">>,
      <<"a","l","e","r","t","s","@","b",".","c","o">>,
      <<"t","u","r","n"," ","N","e","w","s"," ","o","f","f">> }

\* Scenario C of the specification: a select with two options
fCity ==
    Fld("city", <<"c","i","t","y">>, <<"C","i","t","y">>, "select",
        <<Opt("blr", <<"B","a","n","g","a","l","o","r","e">>, <<>>),
          Opt("mum", <<"M","u","m","b","a","i">>, <<>>)>>, <<>>)

\* a checkbox, one of its options with a synonym
fLangs ==
    Fld("langs", <<"l","a","n","g","s">>, <<"L","a","n","g","u","a","g","e","s">>, "checkbox",
        <<Opt("en", <<"E","n","g","l","i","s","h">>, << <<"E","n","g">> >>),
          Opt("hi", <<"H","i","n","d","i">>, <<>>)>>, <<>>)

OptionSchemas == { <<fCity>>, <<fCity, fEmail>>, <<fLangs>> }

OptionChunks ==
    { <<"I"," ","l","i","v","e"," ","i","n"," ","B","a","n","g","a","l","o","r","e">>,
      <<"M","u","m","b","a","i">>,
      <<"b","a","n","g","a","l","o","r","e","@","b",".","c","o">>,
      <<"E","n","g","l","i","s","h">>,
      <<"H","i","n","d","i">>,
      <<"E","n","g">> }

\* a second number field
fYears == Fld("years", <<"y","e","a","r","s">>, <<"E","x","p","e","r","i","e","n","c","e">>, "number", <<>>, <<>>)

\* Scenario D of the specification, and two number fields
NumberSchemas == { <<fAge>>, <<fAge, fYears>> }

\* Scenario D of the specification
ScenarioD == <<"I","'","m"," ","2","9"," ","y","e","a","r","s"," ","o","l","d">>

NumberChunks == { ScenarioD, <<"5">>, <<"1",",","2","0","0">> }

\* free-text fields whose labels name what they hold
fContact == Fld("contact", <<"c","o","n","t","a","c","t">>, <<"W","o","r","k"," ","E","m","a","i","l">>, "text", <<>>, <<>>)
fCell == Fld("cell", <<"c","e","l","l">>, <<"M","o","b","i","l","e"," ","n","o">>, "text", <<>>, <<>>)

\* a phone field, a free-text field as the catch-all of both passes, and
\* free-text fields with telling labels after one without
ContactSchemas == { <<fPhone>>, <<fName>>, <<fName, fContact, fCell>> }

ContactChunks ==
    { <<"9","8","7","6","5","4","3","2",","," ","1","2","3","4","5","6","7","8">>,
      <<"a","@","b",".","c","o">> }

\* a select and a switch next to an e-mail field
MixedSchemas == { <<fCity, fNotify, fEmail>> }

MixedChunks ==
    { <<"b","a","n","g","a","l","o","r","e","@","b",".","c","o">>,
      <<"N","e","w","s"," ","x",","," ","t","u","r","n"," ","N","e","w","s"," ","o","f","f">>,
      <<"M","u","m","b","a","i">> }

\* free-text fields alone, and around an e-mail field
LeftoverSchemas == { <<fName, fCell>>, <<fCell, fEmail, fName>> }

LeftoverChunks ==
    { <<"A","l",","," ","B","o">>,
      <<"A","l",",","B","o">>,
      <<"C","y"," ","a","n","d"," ","D","i">>,
      <<"x",",","B","o">>,
      <<"E","d"," ","a","@","b",".","c","o"," ","F","l","o">> }

\* the arguments of the call: <<schema, transcript>>
Inputs ==
    (Schemas \X Transcripts)
    \cup (ScenarioASchemas \X {ScenarioA})
    \cup (SwitchSchemas \X TranscriptsOf(SwitchChunks))
    \cup (OptionSchemas \X TranscriptsOf(OptionChunks))
    \cup (NumberSchemas \X TranscriptsOf(NumberChunks))
    \cup (ContactSchemas \X TranscriptsOf(ContactChunks))
    \cup (MixedSchemas \X TranscriptsOf(MixedChunks))
    \cup (LeftoverSchemas \X TranscriptsOf(LeftoverChunks))

(***************************************************************************)
(* DynamicFormScreen (src/unnamed/part_000): the voice session of the form. *)
(* Every handler runs to its first await in one step; what follows the      *)
(* await is a step of its own, taken when the promise settles.  A handler   *)
(* that is a useCallback sees the transcripts of the render it was created  *)
(* in: stopListening carries them in its closure.                           *)
(***************************************************************************)
MaxSessions == 2    \* startListening calls of one run
MaxStops == 2       \* stopListening calls that await Voice.stop() at one time
Words == {"a", "b"} \* what the recognizer reports

\* transcript || partialTranscript
OrElse(a, b) == IF a # "" THEN a ELSE b

FormMounted ==
    [listening |-> FALSE, transcript |-> "", partialTranscript |-> "", loading |-> FALSE,
     ignoreResults |-> FALSE,   \* ignoreResultsRef.current
     timeout |-> FALSE,         \* timeoutRef.current holds a timer that has not fired
     voice |-> "idle",          \* the recognizer: idle, running, or finishing after Voice.stop()
     starting |-> FALSE,        \* a startListening call awaits Voice.start()
     session |-> 0,             \* the startListening calls so far
     stops |-> <<>>,            \* the stopListening calls that await Voice.stop(), with their closures
     parses |-> <<>>,           \* the remoteParser calls in flight
     calls |-> [k \in 1..MaxSessions |-> 0]]   \* the remoteParser calls made for each session

SheetMounted ==
    [listening |-> FALSE, transcript |-> "", partialTranscript |-> "",
     preview |-> <<>>,          \* the preview: the session and transcript its updates were parsed from
     voice |-> "idle", starting |-> FALSE, session |-> 0, stops |-> <<>>, parses |-> <<>>]


(***************************************************************************)
(* One call of parseTranscript, one step per pass, then a further call     *)
(* with the same arguments at a later (or the same) time.                  *)
(***************************************************************************)
NotCalled == [called |-> FALSE, updates |-> <<>>]

Init ==
    /\ \E in \in Inputs : schema = in[1] /\ text = in[2]
    /\ now = 0
    /\ chronoBad \in 0..Len(ChronoParse(text, 0))
    /\ pc = "email"
    /\ usedSpans = <<>>
    /\ updates = <<>>
    /\ debug = <<>>
    /\ finalUpdates = <<>>
    /\ mergedOut = <<>>
    /\ again = NotCalled
    /\ errors = <<>>
    /\ form = FormMounted
    /\ sheet = SheetMounted

Cur == [usedSpans |-> usedSpans, updates |-> updates, debug |-> debug]

\* the pass that runs at `at` takes the call's state to st and control to `to`
Step(at, st, to) ==
    /\ pc = at
    /\ usedSpans' = st.usedSpans
    /\ updates' = st.updates
    /\ debug' = st.debug
    /\ pc' = to
    /\ UNCHANGED <<schema, text, now, chronoBad, finalUpdates, mergedOut, again, errors,
                   form, sheet>>

Email == Step("email", EmailPass(schema, text, Cur), "phone")

Phone == Step("phone", PhonePass(schema, text, Cur), "chrono")

Chrono == Step("chrono", ChronoPass(schema, text, now, chronoBad, Cur), "option")

Option == Step("option", OptionPass(schema, text, Cur), "switch")

\* the number pass run ahead of the switch pass
SwitchAfterNumber ==
    Step("switch", SwitchPass(schema, text, NumberPass(schema, text, Cur)), "number")

Switch == Step("switch", SwitchPass(schema, text, Cur), "number")

Number == Step("number", NumberPass(schema, text, Cur), "labelkv")

LabelKv == Step("labelkv", LabelKvPass(schema, text, now, Cur), "leftover")

LeftoverClauses == Step("leftover", LeftoverPass(schema, text, Cur), "dedupe")

\* the final dedupe and the return statement
Return ==
    /\ pc = "dedupe"
    /\ finalUpdates' = Dedupe(updates)
    /\ mergedOut' = mergeSpans(usedSpans)
    /\ pc' = "done"
    /\ UNCHANGED <<schema, text, now, chronoBad, usedSpans, updates, debug, again, errors,
                   form, sheet>>

\* a further call with the same schema and transcript, when the clock reads ref
CallAgain ==
    /\ pc = "done"
    /\ ~again.called
    /\ \E ref \in {c \in Clock : c >= now} :
          /\ now' = ref
          /\ again' = [called |-> TRUE,
                       updates |-> parseTranscript(schema, text, ref, chronoBad)]
    /\ UNCHANGED <<schema, text, chronoBad, pc, usedSpans, updates, debug,
                   finalUpdates, mergedOut, errors, form, sheet>>

\* what the form does with the updates the call returned, once the calls are
\* made: nothing when there are none, else newErrors[u.fieldId] =
\* validateField(field, u.value) for each
Validate ==
    /\ pc = "done"
    /\ again.called
    /\ finalUpdates # <<>>
    /\ errors = <<>>
    /\ \E zone \in {-1, 0, 1} :
          errors' = [k \in DOMAIN finalUpdates |->
                        LET field == CHOOSE f \in Range(schema) : f.id = finalUpdates[k].fieldId
                        IN validateField(field, finalUpdates[k].value, zone)]
    /\ UNCHANGED <<schema, text, now, chronoBad, pc, usedSpans, updates, debug,
                   finalUpdates, mergedOut, again, form, sheet>>

Next ==
    \/ Email
    \/ Phone
    \/ Chrono
    \/ Option
    \/ Switch
    \/ Number
    \/ LabelKv
    \/ LeftoverClauses
    \/ Return
    \/ CallAgain
    \/ Validate

Spec == Init /\ [][Next]_vars

\* the state in which parseTranscript has not been called
EngineIdle ==
    /\ schema = <<>> /\ text = <<>> /\ now = 0 /\ chronoBad = 0 /\ pc = "email"
    /\ usedSpans = <<>> /\ updates = <<>> /\ debug = <<>> /\ finalUpdates = <<>>
    /\ mergedOut = <<>> /\ again = NotCalled /\ errors = <<>>

\* the auto-stop effect, run after a render in which one of its dependencies
\* [partialTranscript, listening, stopListening] changed; stopListening
\* changes with transcript and partialTranscript
AutoStopEffect(old, new) ==
    IF <<new.partialTranscript, new.listening, new.transcript>>
           # <<old.partialTranscript, old.listening, old.transcript>>
    THEN [new EXCEPT !.timeout = new.listening]
    ELSE new

\* both screens mounted, nothing pressed yet
MountedInit ==
    /\ EngineIdle
    /\ form = FormMounted
    /\ sheet = SheetMounted

\* the FAB shows Start while listening is false
startListening ==
    /\ ~form.listening
    /\ ~form.starting
    /\ form.session < MaxSessions
    /\ form' = AutoStopEffect(form,
                   [form EXCEPT !.timeout = FALSE, !.ignoreResults = FALSE,
                                !.transcript = "", !.partialTranscript = "",
                                !.voice = "running", !.starting = TRUE,
                                !.session = @ + 1])
    /\ UNCHANGED <<engineVars, sheet>>

\* Voice.start() settles: setListening(true), or the catch branch
VoiceStarted ==
    /\ form.starting
    /\ \E ok \in BOOLEAN :
          form' = AutoStopEffect(form,
                      IF ok THEN [form EXCEPT !.starting = FALSE, !.listening = TRUE]
                            ELSE [form EXCEPT !.starting = FALSE, !.voice = "idle"])
    /\ UNCHANGED <<engineVars, sheet>>

\* the recognizer reports a final result; after Voice.stop() it is its last
handleSpeechResults ==
    /\ form.voice \in {"running", "finishing"}
    /\ \E t \in Words :
          LET heard == [form EXCEPT !.voice = IF @ = "finishing" THEN "idle" ELSE @]
          IN form' = AutoStopEffect(form,
                         IF form.ignoreResults THEN heard
                         ELSE [heard EXCEPT !.transcript = t, !.partialTranscript = ""])
    /\ UNCHANGED <<engineVars, sheet>>

handleSpeechPartialResults ==
    /\ form.voice = "running"
    /\ ~form.ignoreResults
    /\ \E t \in Words :
          form' = AutoStopEffect(form, [form EXCEPT !.partialTranscript = t])
    /\ form' # form
    /\ UNCHANGED <<engineVars, sheet>>

handleSpeechError ==
    /\ form.voice \in {"running", "finishing"}
    /\ form' = AutoStopEffect(form,
                   [form EXCEPT !.voice = "idle", !.listening = FALSE,
                                !.partialTranscript = "", !.transcript = ""])
    /\ UNCHANGED <<engineVars, sheet>>

\* stopListening up to await Voice.stop(): called by a press of the FAB, which
\* shows Stop while listening is true, or by the auto-stop timer firing
stopListening(who) ==
    /\ Len(form.stops) < MaxStops
    /\ IF who = "press" THEN form.listening ELSE form.timeout
    /\ form' = [form EXCEPT !.ignoreResults = TRUE, !.loading = TRUE,
                            !.timeout = IF who = "timer" THEN FALSE ELSE @,
                            !.voice = IF @ = "running" THEN "finishing" ELSE @,
                            !.stops = Append(@, [by |-> who, session |-> form.session,
                                                 transcript |-> form.transcript,
                                                 partialTranscript |-> form.partialTranscript])]
    /\ UNCHANGED <<engineVars, sheet>>

\* Voice.stop() settles for the oldest waiting call: the rest of stopListening
VoiceStopped ==
    /\ form.stops # <<>>
    /\ LET self == Head(form.stops)
           finalTranscript == OrElse(self.transcript, self.partialTranscript)
           cleared == [form EXCEPT !.stops = Tail(@), !.listening = FALSE,
                                   !.transcript = "", !.partialTranscript = ""]
       IN form' = AutoStopEffect(form,
                      IF finalTranscript = ""
                      THEN [cleared EXCEPT !.loading = FALSE, !.ignoreResults = FALSE]
                      ELSE [cleared EXCEPT
                               !.parses = Append(@, [by |-> self.by, session |-> self.session,
                                                     transcript |-> finalTranscript]),
                               !.calls[self.session] = @ + 1])
    /\ UNCHANGED <<engineVars, sheet>>

\* a remoteParser promise settles: then or catch, and finally
ParserSettled ==
    /\ \E i \in DOMAIN form.parses :
          form' = [form EXCEPT !.parses = SubSeq(@, 1, i - 1) \o SubSeq(@, i + 1, Len(@)),
                               !.loading = FALSE, !.ignoreResults = FALSE]
    /\ UNCHANGED <<engineVars, sheet>>

FormNext ==
    \/ startListening
    \/ VoiceStarted
    \/ handleSpeechResults
    \/ handleSpeechPartialResults
    \/ handleSpeechError
    \/ \E who \in {"press", "timer"} : stopListening(who)
    \/ VoiceStopped
    \/ ParserSettled

FormSpec == MountedInit /\ [][FormNext]_vars

(***************************************************************************)
(* RapSheet (src/RapSheet.tsx): the voice session of the sheet, which shows *)
(* the parsed updates as a preview the user applies.  It has no ignore     *)
(* flag, no auto-stop timer and no loading state.                          *)
(***************************************************************************)
SheetStartListening ==
    /\ ~sheet.listening
    /\ ~sheet.starting
    /\ sheet.session < MaxSessions
    /\ sheet' = [sheet EXCEPT !.transcript = "", !.partialTranscript = "",
                              !.preview = <<>>, !.voice = "running",
                              !.starting = TRUE, !.session = @ + 1]
    /\ UNCHANGED <<engineVars, form>>

SheetVoiceStarted ==
    /\ sheet.starting
    /\ \E ok \in BOOLEAN :
          sheet' = IF ok THEN [sheet EXCEPT !.starting = FALSE, !.listening = TRUE]
                         ELSE [sheet EXCEPT !.starting = FALSE, !.voice = "idle"]
    /\ UNCHANGED <<engineVars, form>>

SheetSpeechResults ==
    /\ sheet.voice \in {"running", "finishing"}
    /\ \E t \in Words :
          sheet' = [sheet EXCEPT !.transcript = t, !.partialTranscript = "",
                                 !.voice = IF @ = "finishing" THEN "idle" ELSE @]
    /\ UNCHANGED <<engineVars, form>>

SheetSpeechPartialResults ==
    /\ sheet.voice = "running"
    /\ \E t \in Words : sheet' = [sheet EXCEPT !.partialTranscript = t]
    /\ sheet' # sheet
    /\ UNCHANGED <<engineVars, form>>

SheetSpeechError ==
    /\ sheet.voice \in {"running", "finishing"}
    /\ sheet' = [sheet EXCEPT !.voice = "idle", !.listening = FALSE,
                              !.partialTranscript = "", !.transcript = ""]
    /\ UNCHANGED <<engineVars, form>>

\* stopListening up to await Voice.stop(): the mic button stops while listening
SheetStopListening ==
    /\ sheet.listening
    /\ Len(sheet.stops) < MaxStops
    /\ sheet' = [sheet EXCEPT !.voice = IF @ = "running" THEN "finishing" ELSE @,
                              !.stops = Append(@, [session |-> sheet.session,
                                                   transcript |-> sheet.transcript,
                                                   partialTranscript |-> sheet.partialTranscript])]
    /\ UNCHANGED <<engineVars, form>>

\* Voice.stop() settles for the oldest waiting call: the rest of stopListening
SheetVoiceStopped ==
    /\ sheet.stops # <<>>
    /\ LET self == Head(sheet.stops)
           finalTranscript == OrElse(self.transcript, self.partialTranscript)
           stopped == [sheet EXCEPT !.stops = Tail(@), !.listening = FALSE]
       IN sheet' = IF finalTranscript = ""
                   THEN stopped
                   ELSE [stopped EXCEPT
                            !.parses = Append(@, [session |-> self.session,
                                                  transcript |-> finalTranscript]),
                            !.partialTranscript = "", !.transcript = ""]
    /\ UNCHANGED <<engineVars, form>>

\* a remoteParser promise settles: its then sets the preview to the updates
\* (which may be none); a rejection has no handler
SheetParserSettled ==
    /\ \E i \in DOMAIN sheet.parses, outcome \in {"updates", "none", "rejected"} :
          LET rest == [sheet EXCEPT !.parses = SubSeq(@, 1, i - 1) \o SubSeq(@, i + 1, Len(@))]
          IN sheet' = CASE outcome = "updates" -> [rest EXCEPT !.preview = <<sheet.parses[i]>>]
                        [] outcome = "none" -> [rest EXCEPT !.preview = <<>>]
                        [] OTHER -> rest
    /\ UNCHANGED <<engineVars, form>>

applyPreview ==
    /\ sheet.preview # <<>>
    /\ sheet' = [sheet EXCEPT !.preview = <<>>, !.transcript = ""]
    /\ UNCHANGED <<engineVars, form>>

SheetNext ==
    \/ SheetStartListening
    \/ SheetVoiceStarted
    \/ SheetSpeechResults
    \/ SheetSpeechPartialResults
    \/ SheetSpeechError
    \/ SheetStopListening
    \/ SheetVoiceStopped
    \/ SheetParserSettled
    \/ applyPreview

SheetSpec == MountedInit /\ [][SheetNext]_vars

(***************************************************************************)
(* Properties.                                                             *)
(***************************************************************************)
SpanOf(e) == [start |-> e.start, end |-> e.end]

\* the events of each pass, in the order of the source, and the notes of its markSpan events
PassEvents ==
    << {"email-skip-overlap", "email-match"},
       {"phone-skip-overlap", "phone-match"},
       {"chrono-skip-overlap", "chrono-match", "chrono-error"},
       {"option-skip-overlap", "option-exact", "option-fuzzy"},
       {"switch-skip-overlap", "switch-match", "switch-turn"},
       {"number-skip-overlap", "number-match"},
       {"labelkv-skip-overlap", "labelkv-match-coerced", "labelkv-option",
        "labelkv-text", "labelkv-text-fallback"},
       {"fallback-assign"} >>

PassNotes ==
    << {"email"}, {"phone"}, {"chrono"}, {"option-exact"}, {"label-boolean"}, {"digits"},
       {"label-kv", "label-kv-option", "label-kv-text"}, {} >>

PassOf(e) ==
    CHOOSE k \in DOMAIN PassEvents :
        IF e.type = "markSpan" THEN e.field \in PassNotes[k] ELSE e.type \in PassEvents[k]

\* C1: the spans parseTranscript returns as debug.usedSpans contain no two
\* overlapping ranges.
C1_NoDoubleClaim ==
    pc = "done" =>
        \A i, j \in DOMAIN mergedOut : i # j => ~spansOverlap(mergedOut[i], mergedOut[j])

\* a run that returns at least two merged spans
C1_Witness == pc = "done" /\ Len(mergedOut) >= 2

\* C2: the returned update list contains no two entries with the same fieldId.
C2_OneUpdatePerField ==
    pc = "done" =>
        \A i, j \in DOMAIN finalUpdates :
            i # j => finalUpdates[i].fieldId # finalUpdates[j].fieldId

\* a run whose passes produced two candidates for one field
C2_Witness ==
    /\ pc = "done"
    /\ \E i, j \in DOMAIN updates : i < j /\ updates[i].fieldId = updates[j].fieldId

CandidateIds == {updates[i].fieldId : i \in DOMAIN updates}

FirstAt(id) == MinOf({i \in DOMAIN updates : updates[i].fieldId = id})

\* the candidate of id with the highest confidence, the earliest one on a tie
BestAt(id) ==
    CHOOSE i \in DOMAIN updates :
        /\ updates[i].fieldId = id
        /\ \A j \in DOMAIN updates :
              updates[j].fieldId = id =>
                 \/ updates[j].confidence < updates[i].confidence
                 \/ updates[j].confidence = updates[i].confidence /\ i <= j

\* C3: the returned list holds, for each field id among the candidates, the
\* candidate of highest confidence (the earliest one on a tie), in the order
\* of the first appearance of the field ids among the candidates.
C3_BestCandidateInFirstOrder ==
    pc = "done" =>
        /\ Len(finalUpdates) = Cardinality(CandidateIds)
        /\ \A k \in DOMAIN finalUpdates :
              /\ finalUpdates[k].fieldId \in CandidateIds
              /\ finalUpdates[k] = updates[BestAt(finalUpdates[k].fieldId)]
              /\ k = Cardinality({id \in CandidateIds :
                                     FirstAt(id) <= FirstAt(finalUpdates[k].fieldId)})

\* a run in which a later candidate of a field beats an earlier one
C3_Witness ==
    /\ pc = "done"
    /\ \E i, j \in DOMAIN updates :
          /\ i < j
          /\ updates[i].fieldId = updates[j].fieldId
          /\ updates[i].confidence < updates[j].confidence

\* C4 as claimed: the number pass runs with the typed extractors, before the
\* option matcher and the switch matcher, so every event of the number pass
\* precedes every event of those two.
C4_NumberBeforeOptionAndSwitch ==
    \A i, j \in DOMAIN debug :
        PassOf(debug[i]) \in {4, 5} /\ PassOf(debug[j]) = 6 => j < i

\* C4: the passes run in the order email, phone, date/time, option, switch,
\* number, label/key-value, leftover, dedupe: the events of a run are in that
\* order, no number is assigned before the switch matcher has run, and
\* nothing is returned before the leftover pass has run.
C4_PassOrder ==
    /\ \A i, j \in DOMAIN debug : i < j => PassOf(debug[i]) <= PassOf(debug[j])
    /\ pc \in {"email", "phone", "chrono", "option", "switch", "number"} =>
          \A i \in DOMAIN updates : updates[i].evidence # "digits"
    /\ pc # "done" => finalUpdates = <<>>

\* a run in which the switch matcher claimed its span and the number pass then
\* assigned a number
C4_Witness ==
    /\ pc = "done"
    /\ \E i, j \in DOMAIN debug :
          i < j /\ debug[i].type = "switch-match" /\ debug[j].type = "number-match"

\* C5 as claimed: no pass adds a candidate for a field that already has one.
C5_NoSecondCandidate ==
    \A i, j \in DOMAIN updates : i < j => updates[i].fieldId # updates[j].fieldId

CheckedEvidence ==
    {"chrono", "digits", "label-kv", "label-kv-option", "label-kv-text", "fallback-clause"}

\* C5: the date/time pass, the number pass, the label/key-value pass and the
\* leftover pass add no candidate for a field that already has one.
C5_CheckedPassesSkipSatisfied ==
    \A i, j \in DOMAIN updates :
        i < j /\ updates[j].evidence \in CheckedEvidence =>
            updates[i].fieldId # updates[j].fieldId

\* a run with one number field and two free numbers: the first is assigned,
\* the second meets a field that already has its candidate
C5_Witness ==
    /\ pc = "done"
    /\ Cardinality({i \in DOMAIN schema : schema[i].type = "number"}) = 1
    /\ Len(NumberMatches(text, 0)) >= 2
    /\ \E i \in DOMAIN debug : debug[i].type = "number-match"
    /\ \A i \in DOMAIN debug : debug[i].type # "number-skip-overlap"

ScenarioASchema == <<fName, fEmail>>

AlexEmail == <<"a","l","e","x","@","e","x","a","m","p","l","e",".","c","o","m">>

AlexDoe == <<"A","l","e","x"," ","D","o","e">>

HasFinal(id, value, conf) ==
    \E k \in DOMAIN finalUpdates :
        /\ finalUpdates[k].fieldId = id
        /\ finalUpdates[k].value = value
        /\ finalUpdates[k].confidence = conf

\* C6 as claimed: in Scenario A the update of name comes from the leftover pass.
C6_NameFromLeftover ==
    schema = ScenarioASchema /\ text = ScenarioA /\ pc = "done" =>
        /\ HasFinal("email", VText(AlexEmail), ConfEmail)
        /\ \E k \in DOMAIN finalUpdates :
              finalUpdates[k].fieldId = "name" /\ finalUpdates[k].evidence = "fallback-clause"

\* C6: in Scenario A, whatever the label of the name field, the output holds
\* email = "alex@example.com" at 0.95 and an update of name at 0.60 that the
\* label/key-value pass produced (its pattern holds the id "name"), with the
\* value "Alex Doe" when the label is "Name"; the leftover pass assigns nothing.
C6_NameFromLabelKv ==
    schema \in ScenarioASchemas /\ text = ScenarioA /\ pc = "done" =>
        /\ Len(finalUpdates) = 2
        /\ HasFinal("email", VText(AlexEmail), ConfEmail)
        /\ \E k \in DOMAIN finalUpdates :
              /\ finalUpdates[k].fieldId = "name"
              /\ finalUpdates[k].confidence = ConfText
              /\ finalUpdates[k].evidence = "label-kv"
        /\ schema = ScenarioASchema => HasFinal("name", VText(AlexDoe), ConfText)
        /\ \A i \in DOMAIN debug : debug[i].type # "fallback-assign"

\* the run of Scenario A has returned, with name = "Alex Doe"
C6_Witness ==
    /\ schema = ScenarioASchema
    /\ text = ScenarioA
    /\ pc = "done"
    /\ HasFinal("name", VText(AlexDoe), ConfText)

\* the span of occurrence k of chrono's result
OccurrenceSpan(k) ==
    LET cr == ChronoParse(text, 0)[k] IN
    [start |-> cr.index, end |-> cr.index + Len(cr.text)]

\* C7 as claimed, for the schemas of the scenario (a date/time field and a
\* number field) and the runs in which no conversion throws: no number-pass
\* update comes from digits inside a date/time occurrence the date parser found.
C7_NoNumberInsideDate ==
    /\ chronoBad = 0
    /\ \E f \in Range(schema) : IsDateType(f.type)
    /\ \E f \in Range(schema) : f.type = "number"
    => \A i \in DOMAIN debug :
          debug[i].type = "number-match" =>
              \A k \in DOMAIN ChronoParse(text, 0) :
                  ~spansOverlap(SpanOf(debug[i]), OccurrenceSpan(k))

\* C7: when the date pass assigns an occurrence to a field (its span is free
\* and a date/time field without update exists), it claims the span before
\* the number pass runs, and no number-pass update comes from digits inside it.
C7_NoNumberInsideClaimedDate ==
    \A i, j \in DOMAIN debug :
        debug[i].type = "chrono-match" /\ debug[j].type = "number-match" =>
            i < j /\ ~spansOverlap(SpanOf(debug[i]), SpanOf(debug[j]))

\* a run in which the number pass skipped a number inside a claimed date
C7_Witness ==
    \E i, j \in DOMAIN debug :
        /\ debug[i].type = "chrono-match"
        /\ debug[j].type = "number-skip-overlap"
        /\ spansOverlap(SpanOf(debug[i]), SpanOf(debug[j]))

\* C8: a further call with the same schema and transcript returns the same
\* updates, whenever it runs.
C8_Deterministic == again.called => again.updates = finalUpdates

WhitespaceOnly(t) == \A i \in DOMAIN t : t[i] \in Spaces

\* C9: for an empty or whitespace-only transcript no pass produces a
\* candidate, no error is raised or caught, and every call returns an empty
\* update list, whatever the schema.
C9_EmptyTranscript ==
    WhitespaceOnly(text) =>
        /\ updates = <<>>
        /\ finalUpdates = <<>>
        /\ again.updates = <<>>
        /\ \A i \in DOMAIN debug : debug[i].type # "chrono-error"

\* a whitespace-only transcript of several characters and a schema with a
\* free-text field, after the call returned
C9_Witness ==
    /\ pc = "done"
    /\ again.called
    /\ Len(text) >= 2
    /\ WhitespaceOnly(text)
    /\ \E i \in DOMAIN schema : schema[i].type = "text"

\* seq without its entry k
Without(seq, k) == SubSeq(seq, 1, k - 1) \o SubSeq(seq, k + 1, Len(seq))

\* C10: when the conversion of one occurrence throws, only that occurrence is
\* skipped: the date pass leaves the updates it would leave had the parser
\* not reported that occurrence.
C10_OnlyFailedOccurrenceSkipped ==
    pc = "option" /\ chronoBad > 0 =>
        updates = ChronoLoop(schema, Without(ChronoParse(text, now), chronoBad), 1, 0,
                             PhonePass(schema, text, EmailPass(schema, text, EmptyState))
                            ).updates

\* C11: every confidence in the output of parseTranscript lies in [0,1]
\* (0..100 in hundredths), in the first call and in a further one.
C11_ConfidenceBounds ==
    /\ \A k \in DOMAIN finalUpdates : finalUpdates[k].confidence \in 0..100
    /\ \A k \in DOMAIN again.updates : again.updates[k].confidence \in 0..100

\* a returned list with a confidence taken from a literal of a pass and one
\* handed through from coerceValue
C11_Witness ==
    /\ pc = "done"
    /\ \E j, k \in DOMAIN finalUpdates :
          /\ finalUpdates[j].evidence = "label-kv"
          /\ finalUpdates[k].evidence # "label-kv"
          /\ finalUpdates[j].confidence # finalUpdates[k].confidence

\* C12: the deduplication applied to its own output returns the same list in
\* the same order, for the candidates of every reachable state and for the
\* list the call returned.
C12_DedupeIdempotent ==
    /\ Dedupe(Dedupe(updates)) = Dedupe(updates)
    /\ pc = "done" => Dedupe(finalUpdates) = finalUpdates

\* a run in which the deduplication dropped a candidate and kept several fields
C12_Witness ==
    /\ pc = "done"
    /\ Len(finalUpdates) >= 2
    /\ Len(finalUpdates) < Len(updates)

\* the evidence tags of each pass, in the order of the source
PassEvidence ==
    << {"email"}, {"phone"}, {"chrono"}, {"option-exact", "option-fuzzy"},
       {"label-boolean", "turn-on-off"}, {"digits"},
       {"label-kv", "label-kv-option", "label-kv-text"}, {"fallback-clause"} >>

\* the spans the passes before pass k marked used
MarkedBefore(k) ==
    {SpanOf(debug[i]) : i \in {j \in DOMAIN debug :
                                  debug[j].type = "markSpan" /\ PassOf(debug[j]) < k}}

\* span overlaps none of the spans of S
FreeOf(S, span) == \A u \in S : ~spansOverlap(u, span)

\* the label and the synonyms of a field
LabelPhrases(f) == Range(NonEmpty(<<f.label>> \o f.synonyms))

\* what the pattern "phrase, optional separator, clause" matches in the transcript
LabelMatch(lp) == KvSearch(text, <<lp>>)

MatchSpan(m) == [start |-> m.index, end |-> m.end]

ClauseOf(m) == ToLower(Slice(text, m.capStart, m.end))

Affirmative(clause) == SomeIncluded(trueWords, clause)

Negative(clause) == SomeIncluded(falseWords, clause)

\* phrase lp is followed by a clause that says v and nothing else, in text no
\* earlier pass claimed
Says(lp, v) ==
    /\ LabelMatch(lp).found
    /\ FreeOf(MarkedBefore(5), MatchSpan(LabelMatch(lp)))
    /\ Affirmative(ClauseOf(LabelMatch(lp))) = v
    /\ Negative(ClauseOf(LabelMatch(lp))) = ~v

OnlyFieldOfType(f, types) ==
    \A g \in Range(schema) : g.type \in types => g = f

\* C13: for a switch field, when a label-or-synonym phrase is followed by an
\* optional separator and a clause with an affirmative keyword and no negative
\* one (respectively a negative and no affirmative one), and the matched span
\* is free, the run outputs the field with value true (respectively false) at
\* 0.90 and marks the whole matched span used.  Stated for the one switch of a
\* schema, and for the phrases of the field that do not contradict each other.
C13_SwitchFromLabel ==
    pc = "done" =>
        \A f \in Range(schema) :
            f.type = "switch" /\ OnlyFieldOfType(f, {"switch"}) =>
                \A v \in BOOLEAN :
                    /\ \E lp \in LabelPhrases(f) : Says(lp, v)
                    /\ ~\E lp \in LabelPhrases(f) : Says(lp, ~v)
                    => /\ HasFinal(f.id, VBool(v), ConfSwitch)
                       /\ \E lp \in LabelPhrases(f) :
                             /\ Says(lp, v)
                             /\ MatchSpan(LabelMatch(lp)) \in Range(usedSpans)

\* the label and the synonyms of an option
OptionPhrases(opt) == Range(NonEmpty(<<opt.label>> \o opt.synonyms))

\* the indices at which phrase p occurs in the transcript as a whole word,
\* case-insensitively
Occurrences(p) ==
    {i \in 0..(Len(text) - Len(p)) :
        /\ IsBoundary(text, i)
        /\ LitAtCI(text, i, p)
        /\ IsBoundary(text, i + Len(p))}

OccurrenceAt(p, i) == [start |-> i, end |-> i + Len(p)]

\* the first occurrence of p, for a p that occurs
FirstOccurrence(p) == OccurrenceAt(p, MinOf(Occurrences(p)))

\* p occurs and its first occurrence lies in text no pass before the option
\* pass claimed
FirstIsFree(p) == Occurrences(p) # {} /\ FreeOf(MarkedBefore(4), FirstOccurrence(p))

\* opt has a matching free phrase
MatchesFree(opt) == \E p \in OptionPhrases(opt) : FirstIsFree(p)

\* opt has a matching free phrase that no phrase of another option of f runs into
MatchesApart(f, opt) ==
    \E p \in OptionPhrases(opt) :
        /\ FirstIsFree(p)
        /\ \A o2 \in Range(f.options) : \A p2 \in OptionPhrases(o2) :
              o2 # opt /\ Occurrences(p2) # {} =>
                  ~spansOverlap(FirstOccurrence(p), FirstOccurrence(p2))

\* the candidates the exact-phrase strategy produced for f
ExactCandidates(f) ==
    {i \in DOMAIN updates : updates[i].fieldId = f.id /\ updates[i].evidence = "option-exact"}

\* the first option of f, in declaration order, with a matching free phrase; 0: none
FirstFreeOption(f) == FirstWith({j \in DOMAIN f.options : MatchesFree(f.options[j])})

\* C14: for a select or radio field the exact-phrase strategy yields at most
\* one candidate, the id of the first option in declaration order that has a
\* matching free phrase, at 0.92; for a checkbox field all matching options
\* accumulate into one array-valued candidate at 0.90.  A phrase matches where
\* the pattern finds it, at its first whole-word occurrence; stated for the
\* one option field of a schema.
C14_ExactPhraseCandidate ==
    pc \notin {"email", "phone", "chrono", "option"} =>
        \A f \in Range(schema) :
            /\ IsOptionType(f.type)
            /\ OnlyFieldOfType(f, {"select", "radio", "checkbox"})
            /\ f.options # <<>>
            => /\ Cardinality(ExactCandidates(f)) <= 1
               /\ (FirstFreeOption(f) = 0) = (ExactCandidates(f) = {})
               /\ \A i \in ExactCandidates(f) :
                     IF f.type = "checkbox"
                     THEN /\ updates[i].value.kind = "ids"
                          /\ updates[i].confidence = ConfOptionCheckbox
                          /\ \A o \in Range(f.options) :
                                /\ MatchesApart(f, o) => o.id \in Range(updates[i].value.s)
                                /\ o.id \in Range(updates[i].value.s) => MatchesFree(o)
                     ELSE /\ updates[i].value = VOption(f.options[FirstFreeOption(f)].id)
                          /\ updates[i].confidence = ConfOptionSingle

\* a select with two options that both occur in free text, the one declared
\* first occurring later in the transcript: the call returned with its candidate
C14_Witness ==
    /\ pc = "done"
    /\ \E f \in Range(schema) :
          /\ f.type = "select"
          /\ Len(f.options) = 2
          /\ FirstIsFree(f.options[1].label)
          /\ FirstIsFree(f.options[2].label)
          /\ MinOf(Occurrences(f.options[2].label)) < MinOf(Occurrences(f.options[1].label))
          /\ HasFinal(f.id, VOption(f.options[1].id), ConfOptionSingle)

\* the pass that produced a candidate with evidence e
EvidencePass(e) == CHOOSE k \in DOMAIN PassEvidence : e \in PassEvidence[k]

\* the field has a candidate of a pass before pass k
SatisfiedBefore(id, k) ==
    \E i \in DOMAIN updates :
        updates[i].fieldId = id /\ EvidencePass(updates[i].evidence) < k

\* the fields of the given types that have no update when pass k starts, in schema order
EligibleFields(types, k) ==
    SelectSeq(schema, LAMBDA f : f.type \in types /\ ~SatisfiedBefore(f.id, k))

\* the matches of pass k that lie in text no earlier pass claimed, in text order
FreeMatches(ms, k) == SelectSeq(ms, LAMBDA m : FreeOf(MarkedBefore(k), m))

\* the spans of the occurrences the date parser reports, without the one whose
\* conversion throws: that occurrence is no match
ChronoSpans ==
    LET all == [k \in DOMAIN ChronoParse(text, 0) |-> OccurrenceSpan(k)] IN
    IF chronoBad = 0 THEN all
    ELSE SubSeq(all, 1, chronoBad - 1) \o SubSeq(all, chronoBad + 1, Len(all))

\* match k to field k, as long as both last
InOrder(type, ms, fields) ==
    [k \in 1..(IF Len(ms) < Len(fields) THEN Len(ms) ELSE Len(fields)) |->
        Event(type, fields[k].id, ms[k])]

EventsOfType(type) == SelectSeq(debug, LAMBDA e : e.type = type)

MarksWithNote(note) == SelectSeq(debug, LAMBDA e : e.type = "markSpan" /\ e.field = note)

\* C15: the date/time pass and the number pass each assign at most one match
\* to any field id: the first free match goes to the first eligible field
\* without an update, later matches go to the next such field or, when none
\* is left, produce no update and claim no span; a lone number field and
\* "I'm 29 years old" yield 29 at 0.90.
C15_OneMatchPerField ==
    /\ pc \notin {"email", "phone", "chrono"} =>
          /\ EventsOfType("chrono-match")
                = InOrder("chrono-match", FreeMatches(ChronoSpans, 3),
                          EligibleFields({"date", "datetime", "time"}, 3))
          /\ Len(MarksWithNote("chrono")) = Len(EventsOfType("chrono-match"))
    /\ pc \in {"labelkv", "leftover", "dedupe", "done"} =>
          /\ EventsOfType("number-match")
                = InOrder("number-match", FreeMatches(NumberMatches(text, 0), 6),
                          EligibleFields({"number"}, 6))
          /\ Len(MarksWithNote("digits")) = Len(EventsOfType("number-match"))
    /\ schema = <<fAge>> /\ text = ScenarioD /\ pc = "done" =>
          finalUpdates = <<Update("age", VNumber(29, <<>>, FALSE), ConfNumber, "digits")>>

\* C16: for a switch field, if the clause captured after the label contains
\* both an affirmative and a negative keyword, strategy 1 is unmatched: that
\* match produces no update and claims no span (the field is left to the
\* "turn <label> on/off" fallback).
C16_AmbiguousUnmatched ==
    \A f \in Range(schema) : \A lp \in LabelPhrases(f) :
        /\ f.type = "switch"
        /\ LabelMatch(lp).found
        /\ Affirmative(ClauseOf(LabelMatch(lp)))
        /\ Negative(ClauseOf(LabelMatch(lp)))
        => \A i \in DOMAIN debug :
              ~ /\ SpanOf(debug[i]) = MatchSpan(LabelMatch(lp))
                /\ \/ debug[i].type = "switch-match" /\ debug[i].field = f.id
                   \/ debug[i].type = "markSpan" /\ debug[i].field = "label-boolean"

\* C17 as claimed: in the email pass and in the phone pass a match adds no
\* candidate for a target field that already has an update.
C17_LaterMatchesDropped ==
    \A i, j \in DOMAIN updates :
        i < j /\ updates[j].evidence \in {"email", "phone"} =>
            updates[i].fieldId # updates[j].fieldId

\* every match of ms assigned to the field at position target of the schema
\* (0: no target, nothing assigned)
AllTo(type, ms, target) ==
    IF target = 0 THEN <<>>
    ELSE [k \in DOMAIN ms |-> Event(type, schema[target].id, ms[k])]

\* C17: in the email pass and in the phone pass every free match is assigned
\* to the pass's target field, the same field for every match, whether or not
\* the field already has an update: each adds a candidate and claims its
\* span, and none is reassigned to another field.
C17_EveryFreeMatchAssigned ==
    /\ pc # "email" =>
          /\ EventsOfType("email-match")
                = AllTo("email-match", EmailMatches(text, 0), EmailTarget(schema))
          /\ Len(MarksWithNote("email")) = Len(EventsOfType("email-match"))
          /\ Len(SelectSeq(updates, LAMBDA u : u.evidence = "email"))
                = Len(EventsOfType("email-match"))
    /\ pc \notin {"email", "phone"} =>
          /\ EventsOfType("phone-match")
                = AllTo("phone-match", FreeMatches(PhoneMatches(text, 0), 2),
                        PhoneTarget(schema))
          /\ Len(MarksWithNote("phone")) = Len(EventsOfType("phone-match"))
          /\ Len(SelectSeq(updates, LAMBDA u : u.evidence = "phone"))
                = Len(EventsOfType("phone-match"))

\* a run with an e-mail address and two phone numbers, all three assigned to
\* the one field that is the target of both passes
C17_Witness ==
    /\ pc = "done"
    /\ \E i, j, k \in DOMAIN updates :
          /\ i < j /\ j < k
          /\ updates[i].evidence = "email"
          /\ updates[j].evidence = "phone"
          /\ updates[k].evidence = "phone"
          /\ updates[i].fieldId = updates[j].fieldId
          /\ updates[j].fieldId = updates[k].fieldId
    /\ Len(usedSpans) = 3

\* C18 as claimed: the exact-phrase strategy matches whenever some whole-word
\* occurrence of an option phrase overlaps no used span.
C18_AnyFreeOccurrenceMatches ==
    pc \notin {"email", "phone", "chrono", "option"} =>
        \A f \in Range(schema) :
            /\ IsOptionType(f.type)
            /\ OnlyFieldOfType(f, {"select", "radio", "checkbox"})
            /\ \E o \in Range(f.options) : \E p \in OptionPhrases(o) :
                  \E i \in Occurrences(p) : FreeOf(MarkedBefore(4), OccurrenceAt(p, i))
            => ExactCandidates(f) # {}

\* C18: the exact-phrase strategy looks at the first whole-word occurrence of
\* a phrase only: the field gets an exact match exactly when the first
\* occurrence of some option phrase overlaps no used span, and every span the
\* strategy claims is the first occurrence of an option phrase.
C18_FirstOccurrenceDecides ==
    pc \notin {"email", "phone", "chrono", "option"} =>
        \A f \in Range(schema) :
            /\ IsOptionType(f.type)
            /\ OnlyFieldOfType(f, {"select", "radio", "checkbox"})
            => /\ (ExactCandidates(f) # {})
                    = (\E o \in Range(f.options) : \E p \in OptionPhrases(o) : FirstIsFree(p))
               /\ \A i \in DOMAIN debug :
                     debug[i].type = "option-exact" /\ debug[i].field = f.id =>
                         \E o \in Range(f.options) : \E p \in OptionPhrases(o) :
                             /\ Occurrences(p) # {}
                             /\ SpanOf(debug[i]) = FirstOccurrence(p)

\* a run in which an option phrase occurs twice, first inside claimed text and
\* then in free text, and the field got no exact match
C18_Witness ==
    /\ pc = "done"
    /\ \E f \in Range(schema) :
          /\ IsOptionType(f.type)
          /\ ExactCandidates(f) = {}
          /\ \E o \in Range(f.options) : \E p \in OptionPhrases(o) :
                /\ Occurrences(p) # {}
                /\ ~FreeOf(MarkedBefore(4), FirstOccurrence(p))
                /\ \E i \in Occurrences(p) : FreeOf(Range(usedSpans), OccurrenceAt(p, i))

\* C19: every span marked used is free with respect to all spans marked
\* before it: the raw, unmerged used spans are pairwise non-overlapping, in
\* the list of spans and in the trace of the marks.
C19_RawSpansDisjoint ==
    /\ \A i, j \in DOMAIN usedSpans :
          i < j => ~spansOverlap(usedSpans[i], usedSpans[j])
    /\ \A i, j \in DOMAIN debug :
          i < j /\ debug[i].type = "markSpan" /\ debug[j].type = "markSpan" =>
              ~spansOverlap(SpanOf(debug[i]), SpanOf(debug[j]))

\* a run in which two passes marked spans and a match inside a marked span
\* was refused
C19_Witness ==
    /\ pc = "done"
    /\ \E i, j \in DOMAIN debug :
          /\ debug[i].type = "markSpan"
          /\ debug[j].type = "markSpan"
          /\ debug[i].field # debug[j].field
    /\ \E i, j \in DOMAIN debug :
          /\ i < j
          /\ debug[i].type = "markSpan"
          /\ debug[j].type \in {"number-skip-overlap", "labelkv-skip-overlap",
                                "option-skip-overlap", "switch-skip-overlap"}
          /\ spansOverlap(SpanOf(debug[i]), SpanOf(debug[j]))

\* C20: the fuzzy strategy is attempted for a field only if the exact-phrase
\* strategy matched nothing for it: no field has both an exact-phrase and a
\* fuzzy candidate, in the candidates and in the trace, and the returned
\* update of a field with an exact-phrase candidate is never a fuzzy one.
C20_FuzzyOnlyWithoutExact ==
    /\ \A i, j \in DOMAIN updates :
          updates[i].evidence = "option-exact" /\ updates[j].evidence = "option-fuzzy" =>
              updates[i].fieldId # updates[j].fieldId
    /\ \A i, j \in DOMAIN debug :
          debug[i].type = "option-exact" /\ debug[j].type = "option-fuzzy" =>
              debug[i].field # debug[j].field
    /\ \A k \in DOMAIN finalUpdates : \A i \in DOMAIN updates :
          updates[i].evidence = "option-exact" /\ updates[i].fieldId = finalUpdates[k].fieldId =>
              finalUpdates[k].evidence # "option-fuzzy"

\* a returned exact-phrase update of a field for which the fuzzy strategy
\* would have matched as well: every word of an option label is in the text
C20_Witness ==
    /\ pc = "done"
    /\ \E f \in Range(schema) :
          /\ IsOptionType(f.type)
          /\ \E k \in DOMAIN finalUpdates :
                finalUpdates[k].fieldId = f.id /\ finalUpdates[k].evidence = "option-exact"
          /\ \E o \in Range(f.options) :
                /\ Tokens(ToLower(o.label), 0) # <<>>
                /\ \A tk \in Range(Tokens(ToLower(o.label), 0)) : tokenPresent(text, tk)

\* what a step of the option pass or of the switch pass does to the used spans
OptionOrSwitchStepMarks ==
    pc \in {"option", "switch"} =>
      LET new == SubSeq(debug', Len(debug) + 1, Len(debug'))
          marks == SelectSeq(new, LAMBDA e : e.type = "markSpan")
          claiming == SelectSeq(new, LAMBDA e : e.type \in {"option-exact", "switch-match"})
      IN /\ usedSpans' = usedSpans \o [k \in DOMAIN marks |-> SpanOf(marks[k])]
         /\ Len(marks) = Len(claiming)
         /\ \A j \in DOMAIN marks : marks[j].field \in {"option-exact", "label-boolean"}
         /\ \A k \in DOMAIN new :
               new[k].type \in {"option-fuzzy", "switch-turn"} /\ k > 1 =>
                   new[k - 1].type # "markSpan"
         /\ claiming = <<>> => usedSpans' = usedSpans

\* C21: a fuzzy option match and a "turn <label> on/off" switch match leave
\* the used spans as they were: the option pass and the switch pass append to
\* usedSpans exactly one span per exact-phrase match and per label match, in
\* the order of the marks, no mark belongs to a fuzzy or a turn match, and a
\* pass that found only fuzzy or turn matches returns the used spans unchanged.
C21_FuzzyAndTurnClaimNothing == [][OptionOrSwitchStepMarks]_vars

\* a run with a fuzzy option match and a turn match, both made while spans
\* were marked used, and the used spans are those of the e-mail pass alone
C21_Witness ==
    /\ pc = "done"
    /\ \E i, j \in DOMAIN debug :
          debug[i].type = "option-fuzzy" /\ debug[j].type = "switch-turn"
    /\ usedSpans # <<>>
    /\ \A i \in DOMAIN debug : debug[i].type = "markSpan" => debug[i].field = "email"

\* the candidates of the leftover pass, in the order they were pushed
FallbackUpdates == SelectSeq(updates, LAMBDA u : u.evidence = "fallback-clause")

\* C22: the leftover text is split at every comma, semicolon, newline and
\* standalone "and", each clause is trimmed and clauses shorter than 2
\* characters are dropped: a clause assigned by the leftover pass is trimmed,
\* has at least 2 characters and contains no comma, semicolon or newline.
C22_NoSeparatorInClause ==
    \A k \in DOMAIN FallbackUpdates :
        LET cl == FallbackUpdates[k].value.s IN
        /\ Len(cl) >= 2
        /\ Trim(cl) = cl
        /\ \A i \in DOMAIN cl : cl[i] \notin {",", ";", "\n"}

\* index i of the text lies in no span marked used
Unclaimed(i) == \A k \in DOMAIN usedSpans : ~(usedSpans[k].start <= i /\ i < usedSpans[k].end)

\* the unclaimed characters of the text from index i on, in their order, one
\* space where a claimed stretch separates two unclaimed ones
RECURSIVE UnclaimedFrom(_, _)
UnclaimedFrom(i, started) ==
    IF i >= Len(text) THEN <<>>
    ELSE IF ~Unclaimed(i) THEN UnclaimedFrom(i + 1, started)
    ELSE (IF started /\ ~Unclaimed(i - 1) THEN <<" ">> ELSE <<>>)
         \o <<At(text, i)>> \o UnclaimedFrom(i + 1, TRUE)

\* the clauses of at least 2 characters of the unclaimed text
LongClauses == SelectSeq(Clauses(Trim(UnclaimedFrom(0, FALSE))), LAMBDA c : Len(c) >= 2)

\* the text-typed fields no earlier pass gave a candidate, in schema order
OpenTextFields ==
    SelectSeq(schema, LAMBDA f :
        /\ f.type = "text"
        /\ \A i \in DOMAIN updates :
              updates[i].fieldId = f.id => updates[i].evidence = "fallback-clause")

\* C23: after the leftover pass, its candidates are the clauses of the text
\* made of the characters outside every used span (fragments in their order,
\* joined by one space), assigned in order, one clause per field, to the
\* text-typed fields without an update, in schema order, each at confidence
\* 0.55, as many as there are clauses and fields.
C23_LeftoverAssignment ==
    pc \in {"dedupe", "done"} =>
        LET Paired(clauses, fields, got) ==
                /\ Len(got) = (IF Len(clauses) < Len(fields) THEN Len(clauses) ELSE Len(fields))
                /\ \A k \in DOMAIN got :
                      got[k] = Update(fields[k].id, VText(clauses[k]), ConfFallback,
                                      "fallback-clause")
        IN Paired(LongClauses, OpenTextFields, FallbackUpdates)

\* a run whose leftover text is put together from two fragments around a
\* used span and gives two fields a clause each
C23_Witness ==
    /\ pc = "done"
    /\ Len(FallbackUpdates) = 2
    /\ \E k \in DOMAIN usedSpans :
          /\ \E i \in 0..(usedSpans[k].start - 1) : Unclaimed(i) /\ At(text, i) # " "
          /\ \E i \in usedSpans[k].end..(Len(text) - 1) : Unclaimed(i) /\ At(text, i) # " "

\* the fields a pass may choose, by rank: 1 the declared type, 2 a label
\* that contains a keyword, 3 a text-typed field
Ranked(type, keywords, rank) ==
    {i \in DOMAIN schema :
        CASE rank = 1 -> schema[i].type = type
          [] rank = 2 -> \E kw \in keywords : Includes(ToLower(schema[i].label), kw)
          [] OTHER -> schema[i].type = "text"}

\* the ids a match of the pass may be assigned to: the first field of the best
\* rank that has a field, none when no rank has one
TargetIds(type, keywords) ==
    LET First(S) == {schema[i].id : i \in {j \in S : \A k \in S : j <= k}}
        Best(typed, labelled, texts) ==
            IF typed # {} THEN First(typed)
            ELSE IF labelled # {} THEN First(labelled) ELSE First(texts)
    IN Best(Ranked(type, keywords, 1), Ranked(type, keywords, 2), Ranked(type, keywords, 3))

\* every candidate and every match event of the pass names a field of ids,
\* there are as many of them as free matches, and none when ids is empty
AssignedWithin(evidence, type, ids, matches) ==
    /\ \A i \in DOMAIN updates : updates[i].evidence = evidence => updates[i].fieldId \in ids
    /\ \A i \in DOMAIN debug : debug[i].type = type => debug[i].field \in ids
    /\ Len(EventsOfType(type)) = (IF ids = {} THEN 0 ELSE Len(matches))
    /\ Len(MarksWithNote(evidence)) = Len(EventsOfType(type))
    /\ Len(SelectSeq(updates, LAMBDA u : u.evidence = evidence)) = Len(EventsOfType(type))

\* C24: in the email pass and in the phone pass every free match goes to the
\* first field of the declared type, else to the first field whose label
\* contains the keyword ("email"; "phone" or "mobile"), else to the first
\* text-typed field; with none of these the match gives no update and marks
\* no span.
C24_TargetPriority ==
    /\ pc # "email" =>
          AssignedWithin("email", "email-match", TargetIds("email", {<<"e","m","a","i","l">>}),
                         EmailMatches(text, 0))
    /\ pc \notin {"email", "phone"} =>
          AssignedWithin("phone", "phone-match",
                         TargetIds("phone", {<<"p","h","o","n","e">>, <<"m","o","b","i","l","e">>}),
                         FreeMatches(PhoneMatches(text, 0), 2))

\* a run in which an e-mail address and a phone number each went to a field
\* chosen by its label, past an earlier text-typed field
C24_Witness ==
    /\ pc = "done"
    /\ \E i, j \in DOMAIN updates : \E a, b \in DOMAIN schema :
          /\ updates[i].evidence = "email" /\ updates[i].fieldId = schema[a].id
          /\ updates[j].evidence = "phone" /\ updates[j].fieldId = schema[b].id
          /\ a # b
          /\ schema[a].type # "email" /\ schema[b].type # "phone"
          /\ \E k \in 1..(a - 1) : schema[k].type = "text"
          /\ \E k \in 1..(b - 1) : schema[k].type = "text"

\* the text the label/key-value pattern of field f captures, trimmed
KvCapture(f) ==
    LET Captured(r) == IF r.found THEN Trim(Slice(text, r.capStart, r.end)) ELSE <<>>
    IN Captured(KvSearch(text, LongestFirst(<<f.label>> \o f.synonyms \o <<f.idText>>)))

\* C25: in the label/key-value pass a number-typed field gets a numeric value,
\* at confidence 0.90, only from captured text that has a digit; captured text
\* without a digit is stored as raw text at confidence 0.60 and never becomes
\* a number.
C25_NumberNeedsDigits ==
    \A f \in Range(schema) : \A i \in DOMAIN updates :
        /\ f.type = "number"
        /\ updates[i].fieldId = f.id
        /\ updates[i].evidence \in {"label-kv", "label-kv-text"}
        => /\ updates[i].value.kind = "number" =>
                /\ updates[i].confidence = ConfNumber
                /\ \E k \in DOMAIN KvCapture(f) : KvCapture(f)[k] \in Digits
           /\ (\A k \in DOMAIN KvCapture(f) : KvCapture(f)[k] \notin Digits) =>
                updates[i] = Update(f.id, VText(KvCapture(f)), ConfText, "label-kv-text")

\* C26: the array value of a checkbox field lists each option id at most
\* once, in the candidates and in the returned updates.
C26_CheckboxIdsDistinct ==
    \A u \in Range(updates) \cup Range(finalUpdates) :
        u.value.kind = "ids" =>
            \A i, j \in DOMAIN u.value.s : i # j => u.value.s[i] # u.value.s[j]

\* C27: every value the engine returns for a date, time or datetime field,
\* the ISO-8601 timestamp of the occurrence, is accepted by validateField.
C27_IsoValuesAccepted ==
    errors # <<>> =>
        \A k \in DOMAIN finalUpdates :
            finalUpdates[k].value.kind = "iso" => errors[k] = NoError

(***************************************************************************)
(* The voice session of DynamicFormScreen (FormSpec).                      *)
(***************************************************************************)
\* a step of handleSpeechResults or handleSpeechPartialResults that changes
\* what the form holds: the only steps that leave a transcript non-empty
SpeechChangesTranscript ==
    /\ <<form'.transcript, form'.partialTranscript>>
           # <<form.transcript, form.partialTranscript>>
    /\ form'.transcript # "" \/ form'.partialTranscript # ""

\* a stopListening call of the running session is not yet through: it awaits
\* Voice.stop(), or the parse it started is in flight, and startListening has
\* not been called since (a call starts the next session)
StopUnsettled ==
    \/ \E k \in DOMAIN form.stops : form.stops[k].session = form.session
    \/ \E k \in DOMAIN form.parses : form.parses[k].session = form.session

SpeechAfterStopIgnored == SpeechChangesTranscript => ~StopUnsettled

\* C28: once stopListening has set ignoreResultsRef, no speech callback changes
\* transcript or partialTranscript until the parse that stop started has
\* settled, whatever else is pressed or completes in between.
C28_StopIgnoresSpeechUntilSettled == [][SpeechAfterStopIgnored]_vars

\* C29: one listening session leads to at most one remoteParser call; the
\* auto-stop timer and a Stop press never both start a parse of the same
\* session's transcript.
C29_OneParsePerSession == \A k \in DOMAIN form.calls : form.calls[k] <= 1

(***************************************************************************)
(* The voice session of RapSheet (SheetSpec).                              *)
(***************************************************************************)
\* C30: after startListening has cleared the preview for a new session, the
\* preview never holds updates parsed from an earlier session's transcript.
C30_PreviewOfCurrentSession ==
    \A k \in DOMAIN sheet.preview : sheet.preview[k].session = sheet.session

====
